---------------------------- MODULE Spec2Model ----------------------------
(***************************************************************************)
(* A model of the CV search core: the pattern-matching engines (KMP,       *)
(* Boyer-Moore, Aho-Corasick), the fuzzy word matcher, the in-memory CV     *)
(* data store, the background ingestion worker and the search service.     *)
(*                                                                         *)
(* Strings are sequences of one-character strings.  Python indices are     *)
(* 0-based; the operators keep the source's 0-based loop variables and add  *)
(* 1 where a TLA+ sequence is indexed.                                      *)
(***************************************************************************)
EXTENDS Integers, Sequences, FiniteSets, TLC

VARIABLES
    text,                    \* matcher input: the text handed to an engine
    patterns,                \* matcher input: the list of patterns handed to an engine
    mcall,                   \* the last engine call and what it returned
    ac_self,                 \* the AhoCorasickAlgorithm instance (patterns, root)
    cvs,                     \* CVDataStore.cvs
    parsing_status,          \* CVDataStore._parsing_status
    parsing_complete_event,  \* CVDataStore.parsing_complete_event is set
    in_keywords_str,            \* search input: the keyword string
    in_algorithm_type,          \* search input: the algorithm identifier
    in_num_top_matches,         \* search input: the result cap
    set_order,               \* the order in which this process iterates a set of words
    scall,                   \* the last call on the store or the search service
    applications,            \* what the database holds: the applications, in order
    db_ok,                   \* whether db_manager.get_all_applications() succeeds
    wpc,                     \* parsing_thread_worker: where it is
    wi,                      \* parsing_thread_worker: the loop index i
    fcall,                   \* the last call of PatternMatcherFactory.get_matcher
    upc,                     \* update_status: where the calling thread is
    u_should,                \* update_status: its local should_complete
    gcall,                   \* the last get_status call: what it found and returned
    srun,                    \* a perform_search in progress: its position and locals
    threads,                 \* the threads calling one shared Aho-Corasick instance
    lin,                     \* the strings handed to calculate_levenshtein_distance
    lcall,                   \* the distances calculate_levenshtein_distance returned
    sim_in,                  \* the arguments handed to find_similar_word
    sim_call,                \* the last find_similar_word call and what it returned
    runs,                    \* the perform_search calls made in a row: how many, what they returned
    db                       \* the db_manager of the search service and how it behaves

mvars == <<text, patterns, mcall, ac_self>>

storevars == <<cvs, parsing_status, parsing_complete_event>>

searchvars == <<in_keywords_str, in_algorithm_type, in_num_top_matches, set_order, scall>>

workervars == <<applications, db_ok, wpc, wi>>

factoryvars == <<fcall>>

statusvars == <<upc, u_should, gcall>>

runvars == <<srun>>

threadvars == <<threads>>

levvars == <<lin, lcall>>

simvars == <<sim_in, sim_call>>

\* the variables of the further scenarios
repeatvars == <<runs>>

dbvars == <<db>>

extvars == <<simvars, repeatvars, dbvars>>

auxvars == <<factoryvars, statusvars, runvars, threadvars, levvars, extvars>>

vars == <<mvars, storevars, searchvars, workervars, auxvars>>

(***************************************************************************)
(* Bounds of the matcher inputs.                                           *)
(***************************************************************************)
MaxTextLen == 3
MaxPatLen == 2
MaxPatterns == 2

(***************************************************************************)
(* Bounds of the store, the search inputs and the ingestion inputs.        *)
(***************************************************************************)
MaxDocs == 3
MaxTopN == 2
MaxApps == 3

Alphabet == {"a", "b"}

\* The strings over S of length at most n.
StringsUpTo(S, n) == UNION {[1..k -> S] : k \in 0..n}

Texts == StringsUpTo(Alphabet, MaxTextLen)

Patterns == StringsUpTo(Alphabet, MaxPatLen)

PatternLists == StringsUpTo(Patterns, MaxPatterns)

\* Python's None, where a node reference is expected
None == -1

\* the outcome of a dict lookup with a missing key, where a dict is expected
KeyError == [q \in {-1} |-> -1]

Max(a, b) == IF a >= b THEN a ELSE b

\* dict.get(key, default) on a dict modelled as a function
Get(dict, key, default) == IF key \in DOMAIN dict THEN dict[key] ELSE default

(***************************************************************************)
(* The reference count: the number of start positions at which the pattern *)
(* occurs in the text, overlapping occurrences included.                   *)
(***************************************************************************)
\* T[i..i+|P|) = P, for a 1-based start i
OccursAt(T, P, i) == \A k \in 1..Len(P) : T[i + k - 1] = P[k]

\* the start positions i whose window [i, i+|P|) lies in T and holds P
StartPositions(T, P) == {i \in 1..(Len(T) - Len(P) + 1) : OccursAt(T, P, i)}

RECURSIVE SumOver(_, _)
\* the sum of f[x] over the x of a finite set S
SumOver(S, f) ==
    IF S = {} THEN 0
    ELSE LET x == CHOOSE y \in S : TRUE IN f[x] + SumOver(S \ {x}, f)

\* the elements of a sequence
Range(seq) == {seq[k] : k \in 1..Len(seq)}

(***************************************************************************)
(* KMPAlgorithm                                                            *)
(***************************************************************************)
RECURSIVE LpsLoop(_, _, _, _)
\* the while loop of _compute_lps_array; i and length are 0-based
LpsLoop(pattern, i, length, lps) ==
    IF ~(i < Len(pattern)) THEN lps
    ELSE IF pattern[i + 1] = pattern[length + 1]
         THEN LpsLoop(pattern, i + 1, length + 1, [lps EXCEPT ![i + 1] = length + 1])
         ELSE IF length # 0
              THEN LpsLoop(pattern, i, lps[length], lps)
              ELSE LpsLoop(pattern, i + 1, length, [lps EXCEPT ![i + 1] = 0])

compute_lps_array(pattern) ==
    LpsLoop(pattern, 1, 0, [k \in 1..Len(pattern) |-> 0])

\* the j taken after a full match (j == m): j = lps[j - 1]
KMPAfterMatch(lps, j) == lps[j]

RECURSIVE KMPLoop(_, _, _, _, _, _)
\* the while loop of KMPAlgorithm.count_occurrences; i, j are 0-based
KMPLoop(txt, pattern, lps, i, j, count) ==
    IF ~(i < Len(txt)) THEN count
    ELSE LET hit == pattern[j + 1] = txt[i + 1]
             i1 == IF hit THEN i + 1 ELSE i
             j1 == IF hit THEN j + 1 ELSE j
         IN  IF j1 = Len(pattern)
             THEN KMPLoop(txt, pattern, lps, i1, KMPAfterMatch(lps, j1), count + 1)
             ELSE IF i1 < Len(txt) /\ pattern[j1 + 1] # txt[i1 + 1]
                  THEN IF j1 # 0
                       THEN KMPLoop(txt, pattern, lps, i1, lps[j1], count)
                       ELSE KMPLoop(txt, pattern, lps, i1 + 1, j1, count)
                  ELSE KMPLoop(txt, pattern, lps, i1, j1, count)

KMPCount(txt, pattern) ==
    LET n == Len(txt)
        m == Len(pattern)
    IN  IF m = 0 \/ n = 0 \/ m > n THEN 0
        ELSE KMPLoop(txt, pattern, compute_lps_array(pattern), 0, 0, 0)

(***************************************************************************)
(* BoyerMooreAlgorithm                                                     *)
(***************************************************************************)
\* the last 0-based index of every character of the pattern
preprocess_bad_character(pattern) ==
    [c \in {pattern[k] : k \in 1..Len(pattern)} |->
        CHOOSE i \in 0..(Len(pattern) - 1) :
            /\ pattern[i + 1] = c
            /\ \A k \in (i + 1)..(Len(pattern) - 1) : pattern[k + 1] # c]

RECURSIVE BMScan(_, _, _, _)
\* while j >= 0 and pattern[j] == text[shift + j]: j -= 1
BMScan(txt, pattern, shift, j) ==
    IF j >= 0 /\ pattern[j + 1] = txt[shift + j + 1]
    THEN BMScan(txt, pattern, shift, j - 1)
    ELSE j

\* a Boyer-Moore that steps over the whole match, missing overlapping occurrences
BMMatchShiftWholePattern(txt, pattern, table, shift) == Len(pattern)

\* the shift taken after a full match at `shift`
BMMatchShift(txt, pattern, table, shift) ==
    LET n == Len(txt)
        m == Len(pattern)
    IN  IF shift + m < n THEN m - Get(table, txt[shift + m + 1], -1) ELSE 1

\* the shift taken after a mismatch at text[shift + j]
BMMismatchShift(txt, table, shift, j) ==
    Max(1, j - Get(table, txt[shift + j + 1], -1))

RECURSIVE BMLoop(_, _, _, _, _)
\* the outer while loop of BoyerMooreAlgorithm.count_occurrences
BMLoop(txt, pattern, table, shift, count) ==
    IF ~(shift <= Len(txt) - Len(pattern)) THEN count
    ELSE LET j == BMScan(txt, pattern, shift, Len(pattern) - 1)
         IN  IF j < 0
             THEN BMLoop(txt, pattern, table,
                         shift + BMMatchShift(txt, pattern, table, shift), count + 1)
             ELSE BMLoop(txt, pattern, table,
                         shift + BMMismatchShift(txt, table, shift, j), count)

\* a Boyer-Moore without the guard on empty and over-length inputs
BMCountUnguarded(txt, pattern) ==
    BMLoop(txt, pattern, preprocess_bad_character(pattern), 0, 0)

BMCount(txt, pattern) ==
    LET n == Len(txt)
        m == Len(pattern)
    IN  IF m = 0 \/ n = 0 \/ m > n THEN 0
        ELSE BMLoop(txt, pattern, preprocess_bad_character(pattern), 0, 0)

(***************************************************************************)
(* AhoCorasickAlgorithm.  The trie is a heap of TrieNode records; a node   *)
(* reference is its index in the heap, the root is the first node, and a   *)
(* children dict is the insertion-ordered sequence of its (char, child)    *)
(* items.                                                                  *)
(***************************************************************************)
TrieNode == [children |-> <<>>, failure |-> None, output |-> <<>>]

Root == 1

\* a heap holding a fresh root: self.root = TrieNode()
NewTrie == <<TrieNode>>

\* char in node.children
HasChild(node, char) == \E k \in 1..Len(node.children) : node.children[k][1] = char

\* node.children[char]
Child(node, char) ==
    node.children[CHOOSE k \in 1..Len(node.children) : node.children[k][1] = char][2]

RECURSIVE BuildTriePattern(_, _, _, _, _)
\* the inner loop of _build_trie over the characters pattern[k..], then
\* current.output.append(pattern_idx)
BuildTriePattern(heap, current, pattern, k, pattern_idx) ==
    IF k > Len(pattern)
    THEN [heap EXCEPT ![current].output = Append(@, pattern_idx)]
    ELSE LET char == pattern[k]
         IN  IF HasChild(heap[current], char)
             THEN BuildTriePattern(heap, Child(heap[current], char), pattern, k + 1,
                                   pattern_idx)
             ELSE LET new == Len(heap) + 1
                      heap1 == Append([heap EXCEPT ![current].children =
                                                       Append(@, <<char, new>>)],
                                      TrieNode)
                  IN  BuildTriePattern(heap1, new, pattern, k + 1, pattern_idx)

RECURSIVE BuildTrieLoop(_, _, _)
\* for pattern_idx, pattern in enumerate(patterns); pattern_idx is 0-based
BuildTrieLoop(heap, pats, pattern_idx) ==
    IF pattern_idx >= Len(pats) THEN heap
    ELSE BuildTrieLoop(BuildTriePattern(heap, Root, pats[pattern_idx + 1], 1, pattern_idx),
                       pats, pattern_idx + 1)

build_trie(heap, pats) == BuildTrieLoop(heap, pats, 0)

RECURSIVE FollowFailure(_, _, _)
\* while node is not None and char not in node.children: node = node.failure
FollowFailure(heap, node, char) ==
    IF node # None /\ ~HasChild(heap[node], char)
    THEN FollowFailure(heap, heap[node].failure, char)
    ELSE node

\* failure links that do not hand down the outputs of the suffix they point to
ExtendOutputDropped(output, failure_output) == output

\* child.output.extend(child.failure.output)
ExtendOutput(output, failure_output) == output \o failure_output

RECURSIVE FailureBFS(_, _)
RECURSIVE FailureChildren(_, _, _, _)
\* for char, child in current.children.items(): the k-th item onwards
FailureChildren(heap, queue, current, k) ==
    IF k > Len(heap[current].children) THEN FailureBFS(heap, queue)
    ELSE LET char == heap[current].children[k][1]
             child == heap[current].children[k][2]
             failure == FollowFailure(heap, heap[current].failure, char)
             link == IF failure # None THEN Child(heap[failure], char) ELSE Root
             heap1 == [heap EXCEPT ![child].failure = link,
                                   ![child].output =
                                       ExtendOutput(@, heap[link].output)]
         IN  FailureChildren(heap1, Append(queue, child), current, k + 1)

\* while queue: current = queue.popleft(); ...
FailureBFS(heap, queue) ==
    IF queue = <<>> THEN heap
    ELSE FailureChildren(heap, Tail(queue), Head(queue), 1)

build_failure_links(heap) ==
    LET level1 == [k \in 1..Len(heap[Root].children) |-> heap[Root].children[k][2]]
        heap1 == [n \in 1..Len(heap) |->
                     IF \E k \in 1..Len(level1) : level1[k] = n
                     THEN [heap[n] EXCEPT !.failure = Root]
                     ELSE heap[n]]
    IN  FailureBFS(heap1, level1)

RECURSIVE RecordMatches(_, _, _)
\* for pattern_idx in current.output: pattern_counts[pattern_idx] += 1
\* (a pattern_idx that is no key of pattern_counts raises KeyError)
RecordMatches(pattern_counts, output, k) ==
    IF pattern_counts = KeyError \/ k > Len(output) THEN pattern_counts
    ELSE IF output[k] \notin DOMAIN pattern_counts THEN KeyError
         ELSE RecordMatches([pattern_counts EXCEPT ![output[k]] = @ + 1], output, k + 1)

RECURSIVE SearchLoop(_, _, _, _, _)
\* for char in text, from the k-th character on
SearchLoop(heap, txt, k, current, pattern_counts) ==
    IF pattern_counts = KeyError \/ k > Len(txt) THEN pattern_counts
    ELSE LET node == FollowFailure(heap, current, txt[k])
         IN  IF node = None
             THEN SearchLoop(heap, txt, k + 1, Root, pattern_counts)
             ELSE LET next == Child(heap[node], txt[k])
                  IN  SearchLoop(heap, txt, k + 1, next,
                                 RecordMatches(pattern_counts, heap[next].output, 1))

\* _search_patterns: the dict pattern index -> count, or KeyError
search_patterns(heap, pats, txt) ==
    SearchLoop(heap, txt, 1, Root, [i \in 0..(Len(pats) - 1) |-> 0])

\* self.root after _build_trie and _build_failure_links on self.patterns
ACAutomaton(pats) == build_failure_links(build_trie(NewTrie, pats))

\* AhoCorasickAlgorithm.count_occurrences: [self, ret], self the instance after it
ACCountOccurrences(self, txt, pattern) ==
    IF pattern = <<>> \/ txt = <<>> \/ Len(pattern) > Len(txt)
    THEN [self |-> self, raised |-> FALSE, ret |-> 0]
    ELSE LET pats == <<pattern>>
             root == ACAutomaton(pats)
             pattern_counts == search_patterns(root, pats, txt)
         IN  [self |-> [patterns |-> pats, root |-> root],
              raised |-> pattern_counts = KeyError,
              ret |-> IF pattern_counts = KeyError THEN 0 ELSE pattern_counts[0]]

\* dict[key] = value
DictSet(dict, key, value) ==
    [q \in (DOMAIN dict) \cup {key} |-> IF q = key THEN value ELSE dict[q]]

EmptyDict == [q \in {} |-> 0]

RECURSIVE MapBack(_, _, _, _)
\* for i, pattern in enumerate(valid_patterns): result[pattern] = pattern_counts[i]
MapBack(result, valid_patterns, pattern_counts, i) ==
    IF i >= Len(valid_patterns) THEN result
    ELSE MapBack(DictSet(result, valid_patterns[i + 1], pattern_counts[i]),
                 valid_patterns, pattern_counts, i + 1)

\* a count_multiple_patterns that leaves out the patterns it filtered away
AddZeroCountsSkipped(result, pats, k) == result

RECURSIVE AddZeroCounts(_, _, _)
\* for pattern in patterns: if pattern not in result: result[pattern] = 0
AddZeroCounts(result, pats, k) ==
    IF k > Len(pats) THEN result
    ELSE AddZeroCounts(IF pats[k] \in DOMAIN result THEN result
                       ELSE DictSet(result, pats[k], 0),
                       pats, k + 1)

\* {pattern: 0 for pattern in patterns}
ZeroCounts(pats) == [p \in {pats[k] : k \in 1..Len(pats)} |-> 0]

\* valid_patterns = [p for p in patterns if p and len(p) <= len(text)]
ValidPattern(txt, p) == p # <<>> /\ Len(p) <= Len(txt)

RECURSIVE Filter(_, _, _)
Filter(txt, pats, k) ==
    IF k > Len(pats) THEN <<>>
    ELSE (IF ValidPattern(txt, pats[k]) THEN <<pats[k]>> ELSE <<>>)
             \o Filter(txt, pats, k + 1)

\* AhoCorasickAlgorithm.count_multiple_patterns: [self, raised, ret]
ACCountMultiplePatterns(self, txt, pats) ==
    IF pats = <<>> \/ txt = <<>>
    THEN [self |-> self, raised |-> FALSE, ret |-> ZeroCounts(pats)]
    ELSE LET valid_patterns == Filter(txt, pats, 1)
         IN  IF valid_patterns = <<>>
             THEN [self |-> self, raised |-> FALSE, ret |-> ZeroCounts(pats)]
             ELSE LET root == ACAutomaton(valid_patterns)
                      pattern_counts == search_patterns(root, valid_patterns, txt)
                      self1 == [patterns |-> valid_patterns, root |-> root]
                  IN  IF pattern_counts = KeyError
                      THEN [self |-> self1, raised |-> TRUE, ret |-> EmptyDict]
                      ELSE [self |-> self1, raised |-> FALSE,
                            ret |-> AddZeroCounts(
                                        MapBack(EmptyDict, valid_patterns,
                                                pattern_counts, 0),
                                        pats, 1)]

(***************************************************************************)
(* String helpers of the Python runtime, on sequences of characters.       *)
(***************************************************************************)
\* str.lower(), character by character
LowerChar(c) == IF c = "A" THEN "a" ELSE IF c = "B" THEN "b" ELSE c

\* the capital I with a dot above (U+0130) and the combining dot above (U+0307),
\* each one character
DottedI == "I^"

CombiningDot == "^"

\* the lower case of one character: one character, but two for the dotted capital I
LowerOf(c) == IF c = DottedI THEN <<"i", CombiningDot>> ELSE <<LowerChar(c)>>

RECURSIVE LowerFrom(_, _)
LowerFrom(s, k) == IF k > Len(s) THEN <<>> ELSE LowerOf(s[k]) \o LowerFrom(s, k + 1)

Lower(s) == LowerFrom(s, 1)

IsSpace(c) == c = " "

RECURSIVE LStrip(_)
LStrip(s) == IF s # <<>> /\ IsSpace(Head(s)) THEN LStrip(Tail(s)) ELSE s

RECURSIVE RStrip(_)
RStrip(s) ==
    IF s # <<>> /\ IsSpace(s[Len(s)]) THEN RStrip(SubSeq(s, 1, Len(s) - 1)) ELSE s

\* str.strip()
Strip(s) == RStrip(LStrip(s))

RECURSIVE SplitOn(_, _, _, _)
\* str.split(sep): the parts between the separators (always at least one part)
SplitOn(s, sep, k, part) ==
    IF k > Len(s) THEN <<part>>
    ELSE IF s[k] = sep
         THEN <<part>> \o SplitOn(s, sep, k + 1, <<>>)
         ELSE SplitOn(s, sep, k + 1, Append(part, s[k]))

Split(s, sep) == SplitOn(s, sep, 1, <<>>)

RECURSIVE SplitWords(_, _, _)
\* str.split(): the maximal runs of non-whitespace characters
SplitWords(s, k, word) ==
    IF k > Len(s) THEN (IF word = <<>> THEN <<>> ELSE <<word>>)
    ELSE IF IsSpace(s[k])
         THEN (IF word = <<>> THEN <<>> ELSE <<word>>) \o SplitWords(s, k + 1, <<>>)
         ELSE SplitWords(s, k + 1, Append(word, s[k]))

Words(s) == SplitWords(s, 1, <<>>)

Min3(a, b, c) == IF a <= b /\ a <= c THEN a ELSE IF b <= c THEN b ELSE c

(***************************************************************************)
(* fuzzy_matching.py                                                       *)
(***************************************************************************)
RECURSIVE LevRow(_, _, _, _, _)
\* for j in range(1, n + 1): the cells dp[i][1..n] of row i; dp[i] has the
\* columns 0..n, so j > n is j outside its domain
LevRow(dp, s1, s2, i, j) ==
    IF j \notin DOMAIN dp[i] THEN dp
    ELSE LET cost == IF s1[i] = s2[j] THEN 0 ELSE 1
             cell == Min3(dp[i - 1][j] + 1, dp[i][j - 1] + 1, dp[i - 1][j - 1] + cost)
         IN  LevRow([dp EXCEPT ![i][j] = cell], s1, s2, i, j + 1)

RECURSIVE LevFill(_, _, _, _)
\* for i in range(1, m + 1): row after row; dp has the rows 0..m, so i > m is
\* i outside its domain
LevFill(dp, s1, s2, i) ==
    IF i \notin DOMAIN dp THEN dp
    ELSE LevFill(LevRow(dp, s1, s2, i, 1), s1, s2, i + 1)

calculate_levenshtein_distance(a, b) ==
    LET s1 == Lower(a)
        s2 == Lower(b)
        m == Len(s1)
        n == Len(s2)
        dp0 == [i \in 0..m |-> [j \in 0..n |->
                   IF j = 0 THEN i ELSE IF i = 0 THEN j ELSE 0]]
    IN  LevFill(dp0, s1, s2, 1)[m][n]

\* A similarity 1.0 - distance / len_max is kept as the pair <<len_max - distance,
\* len_max>>, the fraction it equals; 0.0 is <<0, 1>>.
SimGreater(x, y) == x[1] * y[2] > y[1] * x[2]

\* similarity >= threshold, the threshold given in hundredths
SimAtLeast(x, hundredths) == 100 * x[1] >= hundredths * x[2]

RECURSIVE SimilarWordLoop(_, _, _, _, _)
\* for word in words_in_text, in the set's iteration order
SimilarWordLoop(keyword, words_in_text, k, best_match, highest_similarity) ==
    IF k > Len(words_in_text)
    THEN [best_match |-> best_match, highest_similarity |-> highest_similarity]
    ELSE LET word == words_in_text[k]
             distance == calculate_levenshtein_distance(keyword, word)
             len_max == Max(Len(keyword), Len(word))
             similarity == <<len_max - distance, len_max>>
         IN  IF len_max = 0
             THEN SimilarWordLoop(keyword, words_in_text, k + 1, best_match,
                                  highest_similarity)
             ELSE IF SimGreater(similarity, highest_similarity)
                  THEN SimilarWordLoop(keyword, words_in_text, k + 1, word, similarity)
                  ELSE SimilarWordLoop(keyword, words_in_text, k + 1, best_match,
                                       highest_similarity)

\* best_match = None
NoneWord == <<"None">>

\* find_similar_word returning None
NoMatch == [found |-> FALSE, word |-> NoneWord, similarity |-> <<0, 1>>]

\* set(text.lower().split()) in the order the set iterates: the words of the set
\* in the order `order` lists them
SetIteration(order, S) == SelectSeq(order, LAMBDA w : w \in S)

\* find_similar_word; threshold in hundredths; order fixes the set's iteration order
find_similar_word(keyword, txt, threshold, order) ==
    LET words_in_text == SetIteration(order, Range(Words(Lower(txt))))
        r == SimilarWordLoop(keyword, words_in_text, 1, NoneWord, <<0, 1>>)
    IN  IF SimAtLeast(r.highest_similarity, threshold)
        THEN [found |-> TRUE, word |-> r.best_match, similarity |-> r.highest_similarity]
        ELSE NoMatch

\* AhoCorasickAlgorithm(): self.root = TrieNode(), self.patterns = []
ACInstanceNew == [patterns |-> <<>>, root |-> NewTrie]

(***************************************************************************)
(* PatternMatcherFactory                                                   *)
(***************************************************************************)
\* str.upper() on a character: the letters of the identifiers the model uses
UpperChar(c) ==
    CASE c = "a" -> "A" [] c = "b" -> "B" [] c = "c" -> "C" [] c = "k" -> "K"
      [] c = "m" -> "M" [] c = "p" -> "P" [] OTHER -> c

\* an upper() that leaves the identifier as it was given
UpperUnchanged(algorithm_type) == algorithm_type

\* algorithm_type.upper()
Upper(algorithm_type) == [k \in 1..Len(algorithm_type) |-> UpperChar(algorithm_type[k])]

\* get_matcher: the engine, or ValueError naming the identifier
get_matcher(algorithm_type) ==
    IF Upper(algorithm_type) = <<"K", "M", "P">>
    THEN [raised |-> FALSE, matcher |-> "KMP", message |-> <<>>]
    ELSE IF Upper(algorithm_type) = <<"B", "M">>
         THEN [raised |-> FALSE, matcher |-> "BM", message |-> <<>>]
         ELSE [raised |-> TRUE, matcher |-> "none",
               message |-> <<"Unknown pattern matching algorithm: ">> \o algorithm_type]

\* matcher.count_occurrences(text, pattern) by dynamic dispatch
count_occurrences(matcher, txt, pattern) ==
    CASE matcher = "KMP" -> KMPCount(txt, pattern)
      [] matcher = "BM" -> BMCount(txt, pattern)
      [] matcher = "AC" -> ACCountOccurrences(ACInstanceNew, txt, pattern).ret

(***************************************************************************)
(* CVDataStore.  self.cvs is a dict: the insertion-ordered sequence of its *)
(* items <<detail_id, record>>, a record being a dict with string keys.    *)
(***************************************************************************)
\* the position of a key among the items of a dict, 0 when it is no key
KeyIndex(items, key) ==
    IF \E k \in 1..Len(items) : items[k][1] = key
    THEN CHOOSE k \in 1..Len(items) : items[k][1] = key
    ELSE 0

Keys(items) == {items[k][1] : k \in 1..Len(items)}

\* dict[key] = value on an insertion-ordered dict
ItemSet(items, key, value) ==
    IF KeyIndex(items, key) # 0
    THEN [items EXCEPT ![KeyIndex(items, key)] = <<key, value>>]
    ELSE Append(items, <<key, value>>)

\* a record that holds the text under the key the search reads
CVRecordSearchable(cv_path, txt) == [cv_path |-> cv_path, flat_text |-> txt]

\* the record add_cv builds
CVRecord(cv_path, txt) == [cv_path |-> cv_path, text |-> txt]

\* add_cv(detail_id, cv_path, text): self.cvs after the call
add_cv(items, detail_id, cv_path, txt) == ItemSet(items, detail_id, CVRecord(cv_path, txt))

\* a call of add_cv with the positional arguments args: binding them to the three
\* parameters (detail_id, cv_path, text) raises TypeError unless there are three
call_add_cv(items, args) ==
    IF Len(args) # 3 THEN [raised |-> TRUE, cvs |-> items]
    ELSE [raised |-> FALSE, cvs |-> add_cv(items, args[1], args[2], args[3])]

\* get_all_cvs
get_all_cvs(items) == items

(***************************************************************************)
(* SearchService.perform_search                                            *)
(***************************************************************************)
\* the similarity threshold the fuzzy phase passes, in hundredths (0.85)
FuzzyThreshold == 85

RECURSIVE KeepTerms(_, _)
\* [k.strip().lower() for k in parts if k.strip()], from the k-th part on
KeepTerms(parts, k) ==
    IF k > Len(parts) THEN <<>>
    ELSE (IF Strip(parts[k]) # <<>> THEN <<Lower(Strip(parts[k]))>> ELSE <<>>)
             \o KeepTerms(parts, k + 1)

\* a term list that keeps the empty terms: [k.strip().lower() for k in ...split(",")]
AllTerms(keywords_str) ==
    [k \in 1..Len(Split(keywords_str, ",")) |-> Lower(Strip(Split(keywords_str, ",")[k]))]

\* keywords = [k.strip().lower() for k in keywords_str.split(",") if k.strip()]
ParseKeywords(keywords_str) == KeepTerms(Split(keywords_str, ","), 1)

RECURSIVE KeywordLoop(_, _, _, _, _, _)
\* for keyword in keywords: count, keyword_counts[keyword] = count, total += count
KeywordLoop(matcher, cv_search_text, keywords, k, keyword_counts, total) ==
    IF k > Len(keywords)
    THEN [keyword_counts |-> keyword_counts, total_matches_for_cv |-> total]
    ELSE LET count == count_occurrences(matcher, cv_search_text, keywords[k])
         IN  IF count > 0
             THEN KeywordLoop(matcher, cv_search_text, keywords, k + 1,
                              DictSet(keyword_counts, keywords[k], count), total + count)
             ELSE KeywordLoop(matcher, cv_search_text, keywords, k + 1,
                              keyword_counts, total)

\* a document is recorded as an exact match when its total is positive
IsExactMatch(total_matches_for_cv) == total_matches_for_cv > 0

RECURSIVE ExactLoop(_, _, _, _, _)
\* for detail_id_key, cv_content in all_processed_cvs.items(): the exact phase
ExactLoop(all_processed_cvs, k, keywords, matcher, exact_matches) ==
    IF k > Len(all_processed_cvs) THEN exact_matches
    ELSE LET detail_id_key == all_processed_cvs[k][1]
             cv_content == all_processed_cvs[k][2]
             cv_search_text == Get(cv_content, "flat_text", <<>>)
             c == KeywordLoop(matcher, cv_search_text, keywords, 1, EmptyDict, 0)
         IN  IF cv_search_text = <<>>
             THEN ExactLoop(all_processed_cvs, k + 1, keywords, matcher, exact_matches)
             ELSE IF IsExactMatch(c.total_matches_for_cv)
                  THEN ExactLoop(all_processed_cvs, k + 1, keywords, matcher,
                           ItemSet(exact_matches, detail_id_key,
                               [detail_id |-> detail_id_key,
                                cv_path |-> cv_content["cv_path"],
                                total_matches |-> c.total_matches_for_cv,
                                matched_keywords |-> c.keyword_counts,
                                match_type |-> "exact"]))
                  ELSE ExactLoop(all_processed_cvs, k + 1, keywords, matcher,
                                 exact_matches)

\* int(score * 100)
Percent(similarity) == (100 * similarity[1]) \div similarity[2]

\* f"{keyword} (~{best_word})"
FuzzyKey(keyword, best_word) == keyword \o <<" ", "(", "~">> \o best_word \o <<")">>

RECURSIVE FuzzyKeywordLoop(_, _, _, _, _)
\* for keyword in keywords: match = find_similar_word(keyword, text, threshold=0.85)
FuzzyKeywordLoop(flat_text_for_fuzzy, keywords, k, order, fuzzy_keyword_counts) ==
    IF k > Len(keywords) THEN fuzzy_keyword_counts
    ELSE LET match == find_similar_word(keywords[k], flat_text_for_fuzzy,
                                        FuzzyThreshold, order)
         IN  IF match.found
             THEN FuzzyKeywordLoop(flat_text_for_fuzzy, keywords, k + 1, order,
                      DictSet(fuzzy_keyword_counts, FuzzyKey(keywords[k], match.word),
                              Percent(match.similarity)))
             ELSE FuzzyKeywordLoop(flat_text_for_fuzzy, keywords, k + 1, order,
                                   fuzzy_keyword_counts)

RECURSIVE FuzzyLoop(_, _, _, _, _)
\* for detail_id_key, cv_content in unmatched_cvs_for_fuzzy.items(): the fuzzy phase
FuzzyLoop(unmatched_cvs_for_fuzzy, k, keywords, order, fuzzy_matches) ==
    IF k > Len(unmatched_cvs_for_fuzzy) THEN fuzzy_matches
    ELSE LET detail_id_key == unmatched_cvs_for_fuzzy[k][1]
             cv_content == unmatched_cvs_for_fuzzy[k][2]
             flat_text_for_fuzzy == Get(cv_content, "flat_text", <<>>)
             fuzzy_keyword_counts ==
                 FuzzyKeywordLoop(flat_text_for_fuzzy, keywords, 1, order, EmptyDict)
         IN  IF flat_text_for_fuzzy = <<>>
             THEN FuzzyLoop(unmatched_cvs_for_fuzzy, k + 1, keywords, order, fuzzy_matches)
             ELSE IF DOMAIN fuzzy_keyword_counts # {}
                  THEN FuzzyLoop(unmatched_cvs_for_fuzzy, k + 1, keywords, order,
                           ItemSet(fuzzy_matches, detail_id_key,
                               [detail_id |-> detail_id_key,
                                cv_path |-> cv_content["cv_path"],
                                total_matches |-> Cardinality(DOMAIN fuzzy_keyword_counts),
                                matched_keywords |-> fuzzy_keyword_counts,
                                match_type |-> "fuzzy"]))
                  ELSE FuzzyLoop(unmatched_cvs_for_fuzzy, k + 1, keywords, order,
                                 fuzzy_matches)

\* a trigger that also fires when the exact matches just fill the cap
FuzzyTriggeredAtCap(exact_matches, num_top_matches) ==
    Len(exact_matches) <= num_top_matches

\* if len(exact_matches) < num_top_matches
FuzzyTriggered(exact_matches, num_top_matches) == Len(exact_matches) < num_top_matches

\* {k: v for k, v in all_processed_cvs.items() if k not in exact_matches}
Unmatched(all_processed_cvs, exact_matches) ==
    SelectSeq(all_processed_cvs, LAMBDA item : item[1] \notin Keys(exact_matches))

RECURSIVE Update(_, _, _)
\* {**a, **b}: the items of b set one by one in a copy of a
Update(a, b, k) == IF k > Len(b) THEN a ELSE Update(ItemSet(a, b[k][1], b[k][2]), b, k + 1)

\* {**fuzzy_matches, **exact_matches}
Combine(fuzzy_matches, exact_matches) == Update(fuzzy_matches, exact_matches, 1)

\* the code points of the characters of the match_type strings
Ord(c) ==
    CASE c = "a" -> 97 [] c = "c" -> 99 [] c = "e" -> 101 [] c = "f" -> 102
      [] c = "t" -> 116 [] c = "u" -> 117 [] c = "x" -> 120 [] c = "y" -> 121
      [] c = "z" -> 122

\* the characters of a match_type string
Chars(str) ==
    CASE str = "exact" -> <<"e", "x", "a", "c", "t">>
      [] str = "fuzzy" -> <<"f", "u", "z", "z", "y">>
      [] str = "" -> <<>>

RECURSIVE SeqLess(_, _, _)
\* Python's < on two strings, compared from the k-th character on
SeqLess(x, y, k) ==
    IF k > Len(y) THEN FALSE
    ELSE IF k > Len(x) THEN TRUE
         ELSE IF Ord(x[k]) # Ord(y[k]) THEN Ord(x[k]) < Ord(y[k])
              ELSE SeqLess(x, y, k + 1)

StrLess(x, y) == SeqLess(Chars(x), Chars(y), 1)

\* key(x) < key(y) for key = (match_type, total_matches), as Python compares tuples
SortKeyLess(x, y) ==
    \/ StrLess(x.match_type, y.match_type)
    \/ /\ x.match_type = y.match_type
       /\ x.total_matches < y.total_matches

RECURSIVE InsertDesc(_, _, _)
\* x put behind every element whose key is not less than its own (a stable
\* descending order): before the first element, from the k-th on, with a lesser key
InsertDesc(sorted, x, k) ==
    IF k > Len(sorted) THEN Append(sorted, x)
    ELSE IF SortKeyLess(sorted[k], x)
         THEN SubSeq(sorted, 1, k - 1) \o <<x>> \o SubSeq(sorted, k, Len(sorted))
         ELSE InsertDesc(sorted, x, k + 1)

RECURSIVE SortedLoop(_, _, _)
SortedLoop(values, k, sorted) ==
    IF k > Len(values) THEN sorted
    ELSE SortedLoop(values, k + 1, InsertDesc(sorted, values[k], 1))

\* sorted(combined_results.values(), key=..., reverse=True)
SortedCvs(combined_results) ==
    SortedLoop([k \in 1..Len(combined_results) |-> combined_results[k][2]], 1, <<>>)

\* seq[:n] for n >= 0
Prefix(seq, n) == SubSeq(seq, 1, IF n < Len(seq) THEN n ELSE Len(seq))

\* _get_applicant_info of a service built without a db_manager: a placeholder name
\* made from the stored cv_path, "Unknown Role", and the detail_id as applicant id
get_applicant_info(all_cvs, detail_id) ==
    LET idx == KeyIndex(all_cvs, detail_id)
    IN  [applicant_name |->
             IF idx # 0 /\ "cv_path" \in DOMAIN all_cvs[idx][2]
             THEN <<"placeholder", all_cvs[idx][2]["cv_path"]>>
             ELSE <<"placeholder", 0>>,
         application_role |-> "Unknown Role",
         applicant_id |-> detail_id]

\* one entry of final_results
FinalResult(all_cvs, cv_match_data) ==
    LET info == get_applicant_info(all_cvs, cv_match_data.detail_id)
    IN  [applicant_id |-> info.applicant_id,
         detail_id |-> cv_match_data.detail_id,
         applicant_name |-> info.applicant_name,
         application_role |-> info.application_role,
         matched_keywords |-> cv_match_data.matched_keywords,
         total_matches |-> cv_match_data.total_matches,
         match_type |-> cv_match_data.match_type,
         cv_path |-> cv_match_data.cv_path]

\* the name made from the stored cv_path, or the given one when the store has no
\* such entry
PlaceholderName(all_cvs, detail_id, default_name) ==
    LET idx == KeyIndex(all_cvs, detail_id)
    IN  IF idx # 0 /\ "cv_path" \in DOMAIN all_cvs[idx][2]
        THEN <<"placeholder", all_cvs[idx][2]["cv_path"]>>
        ELSE <<default_name>>

\* the try block of _get_applicant_info.  db tells, by detail_id, for which lookups
\* get_all_applications raises, which applications exist, for which lookups
\* get_applicant_by_id raises and which applicants exist.
LookupBody(db_manager, all_cvs, detail_id) ==
    IF detail_id \in db_manager.applications_raise
    THEN [raised |-> TRUE, applicant_name |-> <<>>, application_role |-> "",
          applicant_id |-> 0]
    ELSE IF detail_id \notin db_manager.applications
    THEN [raised |-> FALSE,
          applicant_name |-> PlaceholderName(all_cvs, detail_id, "DB App Not Found"),
          application_role |-> "N/A", applicant_id |-> detail_id]
    ELSE IF detail_id \in db_manager.applicant_raises
    THEN [raised |-> TRUE, applicant_name |-> <<>>, application_role |-> "",
          applicant_id |-> 0]
    ELSE IF detail_id \in db_manager.applicants
    THEN [raised |-> FALSE, applicant_name |-> <<"full name of", detail_id>>,
          application_role |-> "role in db", applicant_id |-> detail_id]
    ELSE [raised |-> FALSE, applicant_name |-> <<"DB Applicant Not Found">>,
          application_role |-> "role in db", applicant_id |-> detail_id]

\* a lookup whose exceptions nothing catches
ExceptNothing(lookup, all_cvs, detail_id) == lookup

\* except Exception: the placeholder the handler returns
ExceptException(lookup, all_cvs, detail_id) ==
    IF lookup.raised
    THEN [raised |-> FALSE,
          applicant_name |-> PlaceholderName(all_cvs, detail_id, "Error Applicant"),
          application_role |-> "Error Role", applicant_id |-> detail_id]
    ELSE lookup

\* _get_applicant_info of a service built with or without a db_manager
get_applicant_info_from(db_manager, all_cvs, detail_id) ==
    IF ~db_manager.present
    THEN LET info == get_applicant_info(all_cvs, detail_id)
         IN  [raised |-> FALSE, applicant_name |-> info.applicant_name,
              application_role |-> info.application_role,
              applicant_id |-> info.applicant_id]
    ELSE ExceptException(LookupBody(db_manager, all_cvs, detail_id), all_cvs, detail_id)

RECURSIVE FinalResultsLoop(_, _, _, _, _)
\* for cv_match_data in top_cvs: final_results.append({...}); an exception of the
\* lookup ends the loop and the call.  ranked holds the entries of top_cvs.
FinalResultsLoop(db_manager, all_cvs, ranked, k, final_results) ==
    IF k > Len(ranked) THEN [raised |-> FALSE, results |-> final_results]
    ELSE LET info == get_applicant_info_from(db_manager, all_cvs, ranked[k].detail_id)
         IN  IF info.raised THEN [raised |-> TRUE, results |-> <<>>]
             ELSE FinalResultsLoop(db_manager, all_cvs, ranked, k + 1,
                      Append(final_results,
                             [ranked[k] EXCEPT !.applicant_id = info.applicant_id,
                                               !.applicant_name = info.applicant_name,
                                               !.application_role = info.application_role]))

\* a read that stores the default it hands out, as dict.setdefault does
RecordWithDefault(cv_content) ==
    [key \in (DOMAIN cv_content) \cup {"flat_text"} |->
        IF key \in DOMAIN cv_content THEN cv_content[key] ELSE <<>>]

\* a record of the store after perform_search has read it: cv_content.get("flat_text",
\* "") and cv_content["cv_path"] leave the record as it is
RecordAfterRead(cv_content) == cv_content

\* a scan that takes the items out of the dict it goes through
StoreEmptied(all_processed_cvs) == <<>>

\* the dict get_all_cvs handed out, after perform_search has gone through it: items(),
\* len() and get() write nothing, every record is as its reads leave it
StoreAfterSearch(all_processed_cvs) ==
    [k \in 1..Len(all_processed_cvs) |->
        <<all_processed_cvs[k][1], RecordAfterRead(all_processed_cvs[k][2])>>]

\* the early return [], 0.0, 0.0, 0, 0
FailFast ==
    [results |-> <<>>, exact_time |-> "0.0", fuzzy_time |-> "0.0",
     total_cvs |-> 0, fuzzy_count |-> 0,
     scanned |-> FALSE, fuzzy_ran |-> FALSE, exact_ids |-> {}, fuzzy_ids |-> {}]

\* perform_search(keywords_str, algorithm_type, num_top_matches) on the store items
\* all_cvs, with the set iteration order `order`.  The record holds the returned
\* tuple (results, exact_time, fuzzy_time, total_cvs, fuzzy_count) and, of the
\* locals at the return: whether the exact phase was reached (scanned), whether the
\* fuzzy branch was taken (fuzzy_ran), and the keys of exact_matches and
\* fuzzy_matches.
perform_search(all_cvs, keywords_str, algorithm_type, num_top_matches, order) ==
    LET keywords == ParseKeywords(keywords_str)
        got == get_matcher(algorithm_type)
    IN  IF keywords = <<>> THEN FailFast
        ELSE IF got.raised THEN FailFast
        ELSE LET all_processed_cvs == get_all_cvs(all_cvs)
                 exact_matches == ExactLoop(all_processed_cvs, 1, keywords,
                                            got.matcher, <<>>)
                 fuzzy_ran == FuzzyTriggered(exact_matches, num_top_matches)
                 unmatched_cvs_for_fuzzy == Unmatched(all_processed_cvs, exact_matches)
                 fuzzy_matches ==
                     IF fuzzy_ran
                     THEN FuzzyLoop(unmatched_cvs_for_fuzzy, 1, keywords, order, <<>>)
                     ELSE <<>>
                 sorted_cvs == SortedCvs(Combine(fuzzy_matches, exact_matches))
                 top_cvs == Prefix(sorted_cvs, num_top_matches)
             IN  [results |-> [k \in 1..Len(top_cvs) |-> FinalResult(all_cvs, top_cvs[k])],
                  exact_time |-> "measured", fuzzy_time |-> "measured",
                  total_cvs |-> Len(all_processed_cvs),
                  fuzzy_count |-> IF fuzzy_ran THEN Len(unmatched_cvs_for_fuzzy) ELSE 0,
                  scanned |-> TRUE, fuzzy_ran |-> fuzzy_ran,
                  exact_ids |-> Keys(exact_matches), fuzzy_ids |-> Keys(fuzzy_matches)]

\* self.cv_data_store.cvs after perform_search: untouched by the early returns, gone
\* through otherwise
store_after_search(all_cvs, keywords_str, algorithm_type) ==
    IF ParseKeywords(keywords_str) = <<>> \/ get_matcher(algorithm_type).raised
    THEN all_cvs
    ELSE StoreAfterSearch(get_all_cvs(all_cvs))

\* perform_search of a service built with the db_manager: [raised, ret].  The ranking
\* does not depend on the db_manager; the entries of the ranking get their applicant
\* fields from its lookups.
\* the last loop of perform_search applied to the ranking, and the return
WithApplicantInfo(db_manager, all_cvs, ranked) ==
    LET final == FinalResultsLoop(db_manager, all_cvs, ranked.results, 1, <<>>)
    IN  [raised |-> final.raised,
         ret |-> IF final.raised THEN FailFast
                 ELSE [ranked EXCEPT !.results = final.results]]

perform_search_with(db_manager, all_cvs, keywords_str, algorithm_type, num_top_matches, order) ==
    WithApplicantInfo(db_manager, all_cvs,
                      perform_search(all_cvs, keywords_str, algorithm_type,
                                     num_top_matches, order))

(***************************************************************************)
(* CVDataStore.update_status                                               *)
(***************************************************************************)
\* a completion test that asks for more progress than there is work
ShouldCompleteBeyond(progress, total) == progress > total /\ total > 0

\* a completion test satisfied by the first processed item
ShouldCompleteEarly(progress, total) == progress >= 1 /\ total > 0

\* should_complete = progress >= total and total > 0
ShouldComplete(progress, total) == progress >= total /\ total > 0

\* an event that follows the last update: cleared when the update is not complete
SetEventFollowing(event, should_complete) == should_complete

\* if should_complete and not self.parsing_complete_event.is_set(): set it
SetEvent(event, should_complete) == IF should_complete /\ ~event THEN TRUE ELSE event

\* update_status(progress, total): the status and the event after the call
update_status(event, progress, total) ==
    LET should_complete == ShouldComplete(progress, total)
    IN  [status |-> [progress |-> progress, total |-> total],
         event |-> SetEvent(event, should_complete)]

\* a get_status that returns the stored values as they are
get_status_as_stored(status, event) ==
    [ret |-> [parsed_count |-> status.progress, total_count |-> status.total,
              progress |-> status.progress, total |-> status.total,
              is_done |-> event],
     status |-> status]

\* get_status(): the returned dict and self._parsing_status after the call
get_status(status, event) ==
    LET is_done == event
        progress == IF is_done /\ status.total > 0 THEN status.total ELSE status.progress
    IN  [ret |-> [parsed_count |-> progress, total_count |-> status.total,
                  progress |-> progress, total |-> status.total,
                  is_done |-> is_done],
         status |-> IF is_done /\ status.total > 0
                    THEN [status EXCEPT !.progress = status.total]
                    ELSE status]

(***************************************************************************)
(* The values each specification leaves at rest.                           *)
(***************************************************************************)
\* CVDataStore(): no CVs, progress 0 of 0, the event clear
StoreNew ==
    /\ cvs = <<>>
    /\ parsing_status = [progress |-> 0, total |-> 0]
    /\ parsing_complete_event = FALSE

\* no engine call made
NoCall ==
    [op |-> "none", engine |-> "none", pattern |-> <<>>, patterns |-> <<>>,
     raised |-> FALSE, count |-> 0, counts |-> EmptyDict]

NoSearchCall ==
    [op |-> "none", detail_id |-> 0, raised |-> FALSE, ret |-> FailFast]

\* no search input, no call made
SearchIdle ==
    /\ in_keywords_str = <<>>
    /\ in_algorithm_type = <<"K", "M", "P">>
    /\ in_num_top_matches = 0
    /\ set_order = <<>>
    /\ scall = NoSearchCall

\* no worker thread
WorkerIdle ==
    /\ applications = <<>>
    /\ db_ok = TRUE
    /\ wpc = "idle"
    /\ wi = 0

\* no call of the factory made
NoFactoryCall ==
    [op |-> "none", algorithm_type |-> <<>>, raised |-> FALSE, matcher |-> "none",
     message |-> <<>>]

FactoryIdle == fcall = NoFactoryCall

\* no get_status call made
NoStatusCall ==
    [op |-> "none",
     before |-> [progress |-> 0, total |-> 0, event |-> FALSE],
     ret |-> [parsed_count |-> 0, total_count |-> 0, progress |-> 0, total |-> 0,
              is_done |-> FALSE]]

\* no thread is inside update_status, no get_status call made
StatusIdle ==
    /\ upc = "idle"
    /\ u_should = FALSE
    /\ gcall = NoStatusCall

\* no perform_search in progress
NoSearchRun ==
    [pc |-> "idle", it |-> [di_used |-> 0, di_pos |-> 0], keywords |-> <<>>,
     matcher |-> "none", exact_matches |-> <<>>, unmatched_cvs_for_fuzzy |-> <<>>,
     exact_seen |-> 0, fuzzy_ran |-> FALSE, raised |-> FALSE, ret |-> FailFast]

RunIdle == srun = NoSearchRun

\* nothing beside the engines, the store, the service and the worker is in use
\* the threads that share one engine instance
Threads == {1, 2}

\* a thread that calls nothing
NoThread == [pc |-> "idle", text |-> <<>>, pattern |-> <<>>, raised |-> FALSE, ret |-> 0]

ThreadsIdle == threads = [t \in Threads |-> NoThread]

\* no distance asked for
NoLevCall ==
    [op |-> "none", aa |-> 0, ab |-> 0, ba |-> 0, bc |-> 0, ac |-> 0, a_empty |-> 0]

LevIdle ==
    /\ lin = [a |-> <<>>, b |-> <<>>, c |-> <<>>]
    /\ lcall = NoLevCall

\* nothing beside the engines, the store, the service and the worker is in use
\* no find_similar_word call made
NoSimCall == [op |-> "none", ret |-> NoMatch]

SimIdle ==
    /\ sim_in = [keyword |-> <<>>, text |-> <<>>, threshold |-> 0]
    /\ sim_call = NoSimCall

\* none of the further scenarios is in use
\* no search made in a row
NoRuns == [calls |-> 0, first |-> FailFast, last |-> FailFast]

RepeatIdle == runs = NoRuns

\* a search service built without a db_manager
NoDb == [present |-> FALSE, applications_raise |-> {}, applications |-> {},
         applicant_raises |-> {}, applicants |-> {}]

DbIdle == db = NoDb

ExtIdle == SimIdle /\ RepeatIdle /\ DbIdle

AuxIdle == FactoryIdle /\ StatusIdle /\ RunIdle /\ ThreadsIdle /\ LevIdle /\ ExtIdle

MatchIdle ==
    /\ text = <<>>
    /\ patterns = <<>>
    /\ mcall = NoCall
    /\ ac_self = ACInstanceNew

(***************************************************************************)
(* The engines called on the inputs text and patterns.  mcall records the  *)
(* last call: the method, the engine, its pattern argument(s), whether it  *)
(* raised, and the count (count_occurrences) or the dict of counts         *)
(* (count_multiple_patterns) it returned.                                  *)
(***************************************************************************)
InitMatch ==
    /\ AuxIdle
    /\ text \in Texts
    /\ patterns \in PatternLists
    /\ mcall = NoCall
    /\ ac_self = ACInstanceNew
    /\ StoreNew
    /\ SearchIdle
    /\ WorkerIdle

KMP_count_occurrences ==
    \E k \in 1..Len(patterns) :
        /\ mcall' = [NoCall EXCEPT !.op = "count_occurrences", !.engine = "KMP",
                                   !.pattern = patterns[k],
                                   !.count = KMPCount(text, patterns[k])]
        /\ UNCHANGED <<text, patterns, ac_self, storevars, searchvars, workervars, auxvars>>

BM_count_occurrences ==
    \E k \in 1..Len(patterns) :
        /\ mcall' = [NoCall EXCEPT !.op = "count_occurrences", !.engine = "BM",
                                   !.pattern = patterns[k],
                                   !.count = BMCount(text, patterns[k])]
        /\ UNCHANGED <<text, patterns, ac_self, storevars, searchvars, workervars, auxvars>>

AC_count_occurrences ==
    \E k \in 1..Len(patterns) :
        LET r == ACCountOccurrences(ac_self, text, patterns[k])
        IN  /\ mcall' = [NoCall EXCEPT !.op = "count_occurrences", !.engine = "AC",
                                       !.pattern = patterns[k],
                                       !.raised = r.raised,
                                       !.count = r.ret]
            /\ ac_self' = r.self
            /\ UNCHANGED <<text, patterns, storevars, searchvars, workervars, auxvars>>

AC_count_multiple_patterns ==
    LET r == ACCountMultiplePatterns(ac_self, text, patterns)
    IN  /\ mcall' = [NoCall EXCEPT !.op = "count_multiple_patterns", !.engine = "AC",
                                   !.patterns = patterns,
                                   !.raised = r.raised,
                                   !.counts = r.ret]
        /\ ac_self' = r.self
        /\ UNCHANGED <<text, patterns, storevars, searchvars, workervars, auxvars>>

NextMatch ==
    \/ KMP_count_occurrences
    \/ BM_count_occurrences
    \/ AC_count_occurrences
    \/ AC_count_multiple_patterns

SpecMatch == InitMatch /\ [][NextMatch]_vars

(***************************************************************************)
(* perform_search as a function of the store: the store holds parsed CVs   *)
(* with the keys perform_search and get_cv_summary read (cv_path,          *)
(* flat_text, structured_text); the search inputs are drawn at the start.  *)
(***************************************************************************)
\* a stored CV as the search service reads it
ParsedCV(cv_path, flat_text) ==
    [cv_path |-> cv_path, flat_text |-> flat_text,
     structured_text |-> <<"structured">> \o flat_text]

A7 == <<"a", "a", "a", "a", "a", "a", "a">>

A6B == <<"a", "a", "a", "a", "a", "a", "b">>

BA6 == <<"b", "a", "a", "a", "a", "a", "a">>

BB == <<"b", "b">>

\* the flat texts of the stored CVs: normalised as format_flat_text leaves a text
DocTexts ==
    << A7,                     \* the word aaaaaaa
       A7 \o <<" ">> \o BB,    \* aaaaaaa and bb
       A6B \o <<" ">> \o BA6,  \* two words at distance 1 from aaaaaaa
       BB,                     \* bb alone
       <<>> >>                 \* an empty text

\* the words of the stored texts, in the two orders a set of them may iterate
WordOrders == { <<A7, A6B, BA6, BB>>, <<BB, BA6, A6B, A7>> }

\* the keyword strings: one term; two terms with blanks and capitals; one term listed
\* twice; no term
KeywordStrings ==
    { A7,
      <<" ", "A", "A", "A", "A", "A", "A", "A", " ", ",", " ", "b", "b">>,
      BB \o <<",", " ">> \o BB,
      <<" ", ",", " ">> }

Algorithms == { <<"K", "M", "P">>, <<"b", "m">>, <<"A", "C">> }

RECURSIVE StoreOf(_, _)
\* the store holding, for every id from k on that f gives a text, that parsed CV
StoreOf(f, k) ==
    IF k > MaxDocs THEN <<>>
    ELSE (IF f[k] = 0 THEN <<>> ELSE << <<k, ParsedCV(k, DocTexts[f[k]])>> >>)
             \o StoreOf(f, k + 1)

Stores == {StoreOf(f, 1) : f \in [1..MaxDocs -> 0..Len(DocTexts)]}

SearchInputs ==
    /\ in_keywords_str \in KeywordStrings
    /\ in_algorithm_type \in Algorithms
    /\ in_num_top_matches \in 0..MaxTopN
    /\ set_order \in WordOrders
    /\ scall = NoSearchCall

InitSearch ==
    /\ AuxIdle
    /\ MatchIdle
    /\ WorkerIdle
    /\ cvs \in Stores
    /\ parsing_status = [progress |-> 0, total |-> 0]
    /\ parsing_complete_event = FALSE
    /\ SearchInputs

\* search_service.perform_search(keywords_str, algorithm_type, num_top_matches)
PerformSearch ==
    /\ scall' = [op |-> "perform_search", detail_id |-> 0, raised |-> FALSE,
                 ret |-> perform_search(cvs, in_keywords_str, in_algorithm_type,
                                        in_num_top_matches, set_order)]
    /\ cvs' = store_after_search(cvs, in_keywords_str, in_algorithm_type)
    /\ UNCHANGED <<mvars, parsing_status, parsing_complete_event, workervars, auxvars,
                   in_keywords_str, in_algorithm_type, in_num_top_matches, set_order>>

NextSearch == PerformSearch

SpecSearch == InitSearch /\ [][NextSearch]_vars

(***************************************************************************)
(* The store from its construction: CVs are inserted by add_cv and the     *)
(* service searches what the store holds.                                  *)
(***************************************************************************)
\* the texts handed to add_cv
AddTexts == {A7, BB}

InitStore ==
    /\ AuxIdle
    /\ MatchIdle
    /\ WorkerIdle
    /\ StoreNew
    /\ SearchInputs

\* cv_data_store.add_cv(detail_id, cv_path, text) with one of the texts
AddCvOf(texts) ==
    \E detail_id \in 1..MaxDocs, txt \in texts :
        LET r == call_add_cv(cvs, <<detail_id, detail_id, txt>>)
        IN  /\ cvs' = r.cvs
            /\ scall' = [op |-> "add_cv", detail_id |-> detail_id, raised |-> r.raised,
                         ret |-> FailFast]
            /\ UNCHANGED <<mvars, workervars, auxvars, parsing_status, parsing_complete_event,
                           in_keywords_str, in_algorithm_type, in_num_top_matches,
                           set_order>>

\* cv_data_store.add_cv(detail_id, cv_path, text)
AddCv == AddCvOf(AddTexts)

NextStore ==
    \/ AddCv
    \/ PerformSearch

SpecStore == InitStore /\ [][NextStore]_vars

(***************************************************************************)
(* background_parser.parsing_thread_worker                                 *)
(***************************************************************************)
\* re.sub(r"[^\w\s]", "", text): the characters that are kept
IsWordOrSpace(c) == c \in {"a", "b", "A", "B", " "}

RECURSIVE CollapseSpaces(_, _)
\* re.sub(r"\s+", " ", text), from the k-th character on
CollapseSpaces(s, k) ==
    IF k > Len(s) THEN <<>>
    ELSE IF IsSpace(s[k]) /\ k > 1 /\ IsSpace(s[k - 1]) THEN CollapseSpaces(s, k + 1)
         ELSE <<s[k]>> \o CollapseSpaces(s, k + 1)

format_flat_text(raw_text) ==
    Strip(Lower(CollapseSpaces(SelectSeq(raw_text, IsWordOrSpace), 1)))

\* format_resume, kept abstract: the raw text marked as structured
format_resume(raw_text) == <<"structured">> \o raw_text

\* what extract_text_from_pdf returns: nothing when the extraction failed
RawTexts == { <<>>, <<"A", "a", ".", " ", " ", "b">> }

\* an application row and its file: the detail_id, whether the file is on disk and
\* the text the extraction returns
Application(detail_id, on_disk, raw_text) ==
    [detail_id |-> detail_id, cv_path |-> detail_id, on_disk |-> on_disk,
     raw_text |-> raw_text]

AppKinds == {<<FALSE, <<>> >>} \cup {<<TRUE, raw>> : raw \in RawTexts}

AppLists ==
    UNION {{[k \in 1..n |-> Application(k, kinds[k][1], kinds[k][2])] :
               kinds \in [1..n -> AppKinds]} : n \in 0..MaxApps}

InitIngest ==
    /\ AuxIdle
    /\ MatchIdle
    /\ SearchIdle
    /\ StoreNew
    /\ applications \in AppLists
    /\ db_ok \in BOOLEAN
    /\ wpc = "start"
    /\ wi = 0

\* _get_cvs_from_database: the applications, or none when the database call raises
get_cvs_from_database == IF db_ok THEN applications ELSE <<>>

\* the start of parsing_thread_worker, up to the loop
WorkerStart ==
    /\ wpc = "start"
    /\ LET total_cvs == Len(get_cvs_from_database)
           first == update_status(parsing_complete_event, 0, total_cvs)
           second == update_status(first.event, 0, 0)
       IN  IF total_cvs = 0
           THEN /\ parsing_status' = second.status
                /\ parsing_complete_event' = second.event
                /\ wpc' = "done"
           ELSE /\ parsing_status' = first.status
                /\ parsing_complete_event' = first.event
                /\ wpc' = "loop"
    /\ UNCHANGED <<mvars, searchvars, auxvars, cvs, applications, db_ok, wi>>

\* the positional arguments the worker hands to add_cv
WorkerAddCvArgs(app_data) ==
    <<app_data.detail_id, app_data.cv_path, format_flat_text(app_data.raw_text),
      format_resume(app_data.raw_text)>>

\* one iteration of the loop over the applications
WorkerProcess ==
    /\ wpc = "loop"
    /\ LET total_cvs == Len(get_cvs_from_database)
           app_data == get_cvs_from_database[wi + 1]
           added == call_add_cv(cvs, WorkerAddCvArgs(app_data))
           st == update_status(parsing_complete_event, wi + 1, total_cvs)
       IN  /\ cvs' = IF app_data.on_disk THEN added.cvs ELSE cvs
           /\ parsing_status' = st.status
           /\ parsing_complete_event' = st.event
           /\ wi' = wi + 1
           /\ wpc' = IF wi + 1 < total_cvs THEN "loop" ELSE "done"
    /\ UNCHANGED <<mvars, searchvars, auxvars, applications, db_ok>>

NextIngest ==
    \/ WorkerStart
    \/ WorkerProcess

SpecIngest == InitIngest /\ [][NextIngest]_vars

(***************************************************************************)
(* PatternMatcherFactory.get_matcher called with an identifier.            *)
(***************************************************************************)
MaxIdLen == 3

\* the characters of the identifiers: the letters of KMP and BM in both cases
IdChars == {"k", "K", "m", "M", "p", "P", "b", "B"}

Identifiers == StringsUpTo(IdChars, MaxIdLen)

InitFactory ==
    /\ StatusIdle
    /\ RunIdle
    /\ ThreadsIdle
    /\ LevIdle
    /\ ExtIdle
    /\ MatchIdle
    /\ StoreNew
    /\ SearchIdle
    /\ WorkerIdle
    /\ fcall = NoFactoryCall

\* PatternMatcherFactory.get_matcher(algorithm_type)
GetMatcher ==
    \E algorithm_type \in Identifiers :
        LET r == get_matcher(algorithm_type)
        IN  /\ fcall' = [op |-> "get_matcher", algorithm_type |-> algorithm_type,
                         raised |-> r.raised, matcher |-> r.matcher,
                         message |-> r.message]
            /\ UNCHANGED <<mvars, storevars, searchvars, workervars, statusvars, runvars,
                           threadvars, levvars, extvars>>

NextFactory == GetMatcher

SpecFactory == InitFactory /\ [][NextFactory]_vars

(***************************************************************************)
(* The progress of the store: one thread calls update_status, which writes *)
(* the status under the lock and sets the event after releasing it; any    *)
(* thread calls get_status, which runs under the lock.                     *)
(***************************************************************************)
MaxProgress == 2

InitStatus ==
    /\ FactoryIdle
    /\ RunIdle
    /\ ThreadsIdle
    /\ LevIdle
    /\ ExtIdle
    /\ MatchIdle
    /\ SearchIdle
    /\ WorkerIdle
    /\ StoreNew
    /\ StatusIdle

\* update_status(progress, total), the block under the lock
UpdateStatusWrite ==
    /\ upc = "idle"
    /\ \E progress \in 0..MaxProgress, total \in 0..MaxProgress :
           /\ parsing_status' = update_status(parsing_complete_event, progress, total).status
           /\ u_should' = ShouldComplete(progress, total)
    /\ upc' = "signal"
    /\ UNCHANGED <<mvars, searchvars, workervars, factoryvars, runvars, threadvars, levvars, extvars, cvs,
                   parsing_complete_event, gcall>>

\* update_status, after the lock is released: the event is set when due
UpdateStatusSignal ==
    /\ upc = "signal"
    /\ parsing_complete_event' = SetEvent(parsing_complete_event, u_should)
    /\ upc' = "idle"
    /\ u_should' = FALSE
    /\ UNCHANGED <<mvars, searchvars, workervars, factoryvars, runvars, threadvars, levvars, extvars, cvs, parsing_status,
                   gcall>>

\* get_status(), the whole call under the lock
GetStatus ==
    LET r == get_status(parsing_status, parsing_complete_event)
    IN  /\ gcall' = [op |-> "get_status",
                     before |-> [progress |-> parsing_status.progress,
                                 total |-> parsing_status.total,
                                 event |-> parsing_complete_event],
                     ret |-> r.ret]
        /\ parsing_status' = r.status
        /\ UNCHANGED <<mvars, searchvars, workervars, factoryvars, runvars, threadvars, levvars, extvars, cvs,
                       parsing_complete_event, upc, u_should>>

NextStatus ==
    \/ UpdateStatusWrite
    \/ UpdateStatusSignal
    \/ GetStatus

SpecStatus == InitStatus /\ [][NextStatus]_vars

(***************************************************************************)
(* perform_search step by step, while another thread calls add_cv.         *)
(* get_all_cvs hands out the dict of the store itself, so the two loops    *)
(* over all_processed_cvs.items() iterate the dict add_cv writes to.  A    *)
(* step is one iteration of such a loop: the threads switch inside the     *)
(* body of an iteration, never between the making of the iterator and the  *)
(* first item it is asked for.  exact_seen keeps the number of items the    *)
(* exact loop went through.                                                *)
(***************************************************************************)
\* iter(dict.items()): the iterator remembers the size of the dict
DictIter(items) == [di_used |-> Len(items), di_pos |-> 0]

\* next() on the iterator of a dict: RuntimeError("dictionary changed size during
\* iteration") when the size is no longer the remembered one, StopIteration at the
\* end, the next item otherwise
DictIterNext(items, it) ==
    IF Len(items) # it.di_used
    THEN [raised |-> TRUE, stop |-> FALSE, item |-> <<>>, it |-> it]
    ELSE IF it.di_pos >= Len(items)
         THEN [raised |-> FALSE, stop |-> TRUE, item |-> <<>>, it |-> it]
         ELSE [raised |-> FALSE, stop |-> FALSE, item |-> items[it.di_pos + 1],
               it |-> [it EXCEPT !.di_pos = @ + 1]]

\* the for statement of the exact phase asks for its next item and runs its body
ExactIterate(run, items) ==
    LET n == DictIterNext(items, run.it)
    IN  IF n.raised THEN [run EXCEPT !.pc = "raised", !.raised = TRUE]
        ELSE IF n.stop THEN [run EXCEPT !.pc = "trigger", !.exact_seen = run.it.di_pos]
        ELSE [run EXCEPT !.it = n.it,
                         !.exact_matches = ExactLoop(<<n.item>>, 1, run.keywords,
                                                     run.matcher, @)]

\* the comprehension building unmatched_cvs_for_fuzzy asks for its next item and
\* keeps it when its key is not in exact_matches
UnmatchedIterate(run, items) ==
    LET n == DictIterNext(items, run.it)
    IN  IF n.raised THEN [run EXCEPT !.pc = "raised", !.raised = TRUE]
        ELSE IF n.stop THEN [run EXCEPT !.pc = "finish"]
        ELSE [run EXCEPT !.it = n.it,
                         !.unmatched_cvs_for_fuzzy =
                             @ \o Unmatched(<<n.item>>, run.exact_matches)]

\* the rest of perform_search, from the fuzzy loop over the copy to the return
FinishSearch(run, items, num_top_matches, order) ==
    LET fuzzy_matches ==
            IF run.fuzzy_ran
            THEN FuzzyLoop(run.unmatched_cvs_for_fuzzy, 1, run.keywords, order, <<>>)
            ELSE <<>>
        sorted_cvs == SortedCvs(Combine(fuzzy_matches, run.exact_matches))
        top_cvs == Prefix(sorted_cvs, num_top_matches)
    IN  [results |-> [k \in 1..Len(top_cvs) |-> FinalResult(items, top_cvs[k])],
         exact_time |-> "measured", fuzzy_time |-> "measured",
         total_cvs |-> Len(items),
         fuzzy_count |-> IF run.fuzzy_ran THEN Len(run.unmatched_cvs_for_fuzzy) ELSE 0,
         scanned |-> TRUE, fuzzy_ran |-> run.fuzzy_ran,
         exact_ids |-> Keys(run.exact_matches), fuzzy_ids |-> Keys(fuzzy_matches)]

\* the store when the search starts: empty, or holding the first parsed CVs, whose
\* words are close to the search term
StoresAtStart ==
    {StoreOf([k \in 1..MaxDocs |-> IF k <= n THEN 3 ELSE 0], 1) : n \in 0..MaxDocs}

InitConcurrentSearch ==
    /\ FactoryIdle
    /\ StatusIdle
    /\ MatchIdle
    /\ WorkerIdle
    /\ cvs \in StoresAtStart
    /\ parsing_status = [progress |-> 0, total |-> 0]
    /\ parsing_complete_event = FALSE
    /\ SearchInputs
    /\ ThreadsIdle
    /\ LevIdle
    /\ ExtIdle
    /\ srun = NoSearchRun

\* perform_search from its start to the body of the first iteration of the exact loop
SearchBegin ==
    /\ srun.pc = "idle"
    /\ LET keywords == ParseKeywords(in_keywords_str)
           got == get_matcher(in_algorithm_type)
       IN  IF keywords = <<>> \/ got.raised
           THEN srun' = [srun EXCEPT !.pc = "done", !.ret = FailFast]
           ELSE srun' = ExactIterate([srun EXCEPT !.pc = "exact",
                                                  !.keywords = keywords,
                                                  !.matcher = got.matcher,
                                                  !.it = DictIter(get_all_cvs(cvs))],
                                     get_all_cvs(cvs))
    /\ UNCHANGED <<mvars, storevars, searchvars, workervars, factoryvars, statusvars,
                   threadvars, levvars, extvars>>

\* one more iteration of the exact loop
ExactNext ==
    /\ srun.pc = "exact"
    /\ srun' = ExactIterate(srun, get_all_cvs(cvs))
    /\ UNCHANGED <<mvars, storevars, searchvars, workervars, factoryvars, statusvars,
                   threadvars, levvars, extvars>>

\* if len(exact_matches) < num_top_matches: the comprehension up to its first item
FuzzyStart ==
    /\ srun.pc = "trigger"
    /\ IF FuzzyTriggered(srun.exact_matches, in_num_top_matches)
       THEN srun' = UnmatchedIterate([srun EXCEPT !.pc = "unmatched",
                                                  !.fuzzy_ran = TRUE,
                                                  !.it = DictIter(get_all_cvs(cvs))],
                                     get_all_cvs(cvs))
       ELSE srun' = [srun EXCEPT !.pc = "finish"]
    /\ UNCHANGED <<mvars, storevars, searchvars, workervars, factoryvars, statusvars,
                   threadvars, levvars, extvars>>

\* one more iteration of the comprehension
UnmatchedNext ==
    /\ srun.pc = "unmatched"
    /\ srun' = UnmatchedIterate(srun, get_all_cvs(cvs))
    /\ UNCHANGED <<mvars, storevars, searchvars, workervars, factoryvars, statusvars,
                   threadvars, levvars, extvars>>

\* the fuzzy loop, the ranking and the return
SearchFinish ==
    /\ srun.pc = "finish"
    /\ srun' = [srun EXCEPT !.pc = "done",
                            !.ret = FinishSearch(srun, get_all_cvs(cvs),
                                                 in_num_top_matches, set_order)]
    /\ UNCHANGED <<mvars, storevars, searchvars, workervars, factoryvars, statusvars,
                   threadvars, levvars, extvars>>

\* the other thread's add_cv: the text it stores does not matter to the search,
\* which reads the key flat_text only
AddCvDuringSearch == AddCvOf({A7})

NextConcurrentSearch ==
    \/ AddCvDuringSearch
    \/ SearchBegin
    \/ ExactNext
    \/ FuzzyStart
    \/ UnmatchedNext
    \/ SearchFinish

SpecConcurrentSearch == InitConcurrentSearch /\ [][NextConcurrentSearch]_vars

(***************************************************************************)
(* Two threads call count_occurrences on one AhoCorasickAlgorithm          *)
(* instance.  The method keeps its patterns and its trie in the fields     *)
(* self.patterns and self.root of the instance, and takes no lock: a step  *)
(* of a thread is one statement of the method, on the fields as they are.  *)
(***************************************************************************)
MaxThreadLen == 2

ThreadStrings == StringsUpTo(Alphabet, MaxThreadLen)

InitThreads ==
    /\ FactoryIdle
    /\ StatusIdle
    /\ RunIdle
    /\ LevIdle
    /\ ExtIdle
    /\ SearchIdle
    /\ WorkerIdle
    /\ StoreNew
    /\ text = <<>>
    /\ patterns = <<>>
    /\ mcall = NoCall
    /\ ac_self = ACInstanceNew
    /\ threads \in [Threads -> {[pc |-> "start", text |-> txt, pattern |-> pattern,
                                 raised |-> FALSE, ret |-> 0] :
                                    txt \in ThreadStrings, pattern \in ThreadStrings}]

\* the guard of count_occurrences, and self.patterns = [pattern]
CountSetPatterns ==
    \E t \in Threads :
        /\ threads[t].pc = "start"
        /\ IF \/ threads[t].pattern = <<>>
              \/ threads[t].text = <<>>
              \/ Len(threads[t].pattern) > Len(threads[t].text)
           THEN /\ threads' = [threads EXCEPT ![t].pc = "done", ![t].ret = 0]
                /\ UNCHANGED ac_self
           ELSE /\ ac_self' = [ac_self EXCEPT !.patterns = <<threads[t].pattern>>]
                /\ threads' = [threads EXCEPT ![t].pc = "root"]
        /\ UNCHANGED <<text, patterns, mcall, storevars, searchvars, workervars,
                       factoryvars, statusvars, runvars, levvars,
                       extvars>>

\* self.root = TrieNode()
CountNewRoot ==
    \E t \in Threads :
        /\ threads[t].pc = "root"
        /\ ac_self' = [ac_self EXCEPT !.root = NewTrie]
        /\ threads' = [threads EXCEPT ![t].pc = "trie"]
        /\ UNCHANGED <<text, patterns, mcall, storevars, searchvars, workervars,
                       factoryvars, statusvars, runvars, levvars,
                       extvars>>

\* self._build_trie(self.patterns)
CountBuildTrie ==
    \E t \in Threads :
        /\ threads[t].pc = "trie"
        /\ ac_self' = [ac_self EXCEPT !.root = build_trie(ac_self.root, ac_self.patterns)]
        /\ threads' = [threads EXCEPT ![t].pc = "links"]
        /\ UNCHANGED <<text, patterns, mcall, storevars, searchvars, workervars,
                       factoryvars, statusvars, runvars, levvars,
                       extvars>>

\* self._build_failure_links()
CountBuildFailureLinks ==
    \E t \in Threads :
        /\ threads[t].pc = "links"
        /\ ac_self' = [ac_self EXCEPT !.root = build_failure_links(ac_self.root)]
        /\ threads' = [threads EXCEPT ![t].pc = "search"]
        /\ UNCHANGED <<text, patterns, mcall, storevars, searchvars, workervars,
                       factoryvars, statusvars, runvars, levvars,
                       extvars>>

\* pattern_counts = self._search_patterns(text); return pattern_counts[0]
CountSearch ==
    \E t \in Threads :
        /\ threads[t].pc = "search"
        /\ LET pattern_counts ==
                   search_patterns(ac_self.root, ac_self.patterns, threads[t].text)
           IN  threads' = [threads EXCEPT
                              ![t].pc = "done",
                              ![t].raised = pattern_counts = KeyError,
                              ![t].ret = IF pattern_counts = KeyError THEN 0
                                         ELSE pattern_counts[0]]
        /\ UNCHANGED <<mvars, storevars, searchvars, workervars,
                       factoryvars, statusvars, runvars, levvars,
                       extvars>>

NextThreads ==
    \/ CountSetPatterns
    \/ CountNewRoot
    \/ CountBuildTrie
    \/ CountBuildFailureLinks
    \/ CountSearch

SpecThreads == InitThreads /\ [][NextThreads]_vars

(***************************************************************************)
(* calculate_levenshtein_distance on three strings a, b and c.             *)
(***************************************************************************)
MaxLevLen == 2

\* letters in both cases, and a capital whose lower case is two characters long
LevAlphabet == {"a", "A", "b", DottedI}

LevStrings == StringsUpTo(LevAlphabet, MaxLevLen)

InitLev ==
    /\ FactoryIdle
    /\ StatusIdle
    /\ RunIdle
    /\ ThreadsIdle
    /\ MatchIdle
    /\ SearchIdle
    /\ WorkerIdle
    /\ StoreNew
    /\ ExtIdle
    /\ lin \in [a : LevStrings, b : LevStrings, c : LevStrings]
    /\ lcall = NoLevCall

\* the calls calculate_levenshtein_distance(x, y) for the pairs among a, b, c and ""
CalculateDistances ==
    /\ lcall' = [op |-> "distances",
                 aa |-> calculate_levenshtein_distance(lin.a, lin.a),
                 ab |-> calculate_levenshtein_distance(lin.a, lin.b),
                 ba |-> calculate_levenshtein_distance(lin.b, lin.a),
                 bc |-> calculate_levenshtein_distance(lin.b, lin.c),
                 ac |-> calculate_levenshtein_distance(lin.a, lin.c),
                 a_empty |-> calculate_levenshtein_distance(lin.a, <<>>)]
    /\ UNCHANGED <<mvars, storevars, searchvars, workervars, factoryvars, statusvars,
                   runvars, threadvars, lin, extvars>>

NextLev == CalculateDistances

SpecLev == InitLev /\ [][NextLev]_vars

(***************************************************************************)
(* find_similar_word called on a keyword, a text and a threshold.          *)
(***************************************************************************)
MaxSimLen == 3

\* the texts: letters in both cases and blanks
SimTexts == StringsUpTo({"a", "B", " "}, MaxSimLen)

SimKeywords == StringsUpTo({"a", "b"}, MaxSimLen - 1)

\* the thresholds, in hundredths: 0.0, 0.5, 0.85 and 1.0
SimThresholds == {0, 50, 85, 100}

\* the words the lower-cased texts can hold
SimWords == StringsUpTo({"a", "b"}, MaxSimLen) \ {<<>>}

RECURSIVE SeqOfSet(_)
\* the elements of a set, listed one after the other
SeqOfSet(S) ==
    IF S = {} THEN <<>>
    ELSE LET x == CHOOSE y \in S : TRUE IN <<x>> \o SeqOfSet(S \ {x})

Reverse(seq) == [k \in 1..Len(seq) |-> seq[Len(seq) + 1 - k]]

\* two orders in which a set of these words may iterate
SimOrders == {SeqOfSet(SimWords), Reverse(SeqOfSet(SimWords))}

InitSimilar ==
    /\ FactoryIdle
    /\ StatusIdle
    /\ RunIdle
    /\ ThreadsIdle
    /\ LevIdle
    /\ MatchIdle
    /\ WorkerIdle
    /\ StoreNew
    /\ in_keywords_str = <<>>
    /\ in_algorithm_type = <<"K", "M", "P">>
    /\ in_num_top_matches = 0
    /\ set_order \in SimOrders
    /\ scall = NoSearchCall
    /\ RepeatIdle
    /\ DbIdle
    /\ sim_in \in [keyword : SimKeywords, text : SimTexts, threshold : SimThresholds]
    /\ sim_call = NoSimCall

\* find_similar_word(keyword, text, threshold)
FindSimilarWord ==
    /\ sim_call' = [op |-> "find_similar_word",
                    ret |-> find_similar_word(sim_in.keyword, sim_in.text,
                                              sim_in.threshold, set_order)]
    /\ UNCHANGED <<mvars, storevars, searchvars, workervars, factoryvars, statusvars,
                   runvars, threadvars, levvars, repeatvars, dbvars, sim_in>>

NextSimilar == FindSimilarWord

SpecSimilar == InitSimilar /\ [][NextSimilar]_vars

(***************************************************************************)
(* The same search made several times in a row on a store nothing else     *)
(* writes to.                                                              *)
(***************************************************************************)
MaxRuns == 3

InitRepeat ==
    /\ FactoryIdle
    /\ StatusIdle
    /\ RunIdle
    /\ ThreadsIdle
    /\ LevIdle
    /\ SimIdle
    /\ DbIdle
    /\ MatchIdle
    /\ WorkerIdle
    /\ cvs \in {StoreOf(f, 1) : f \in [1..MaxDocs -> {0, 1, 3}]}
    /\ parsing_status = [progress |-> 0, total |-> 0]
    /\ parsing_complete_event = FALSE
    /\ SearchInputs
    /\ runs = NoRuns

\* one more perform_search(keywords_str, algorithm_type, num_top_matches) with the
\* same arguments; runs keeps what the first and the last call returned
SearchAgain ==
    /\ runs.calls < MaxRuns
    /\ scall' = [op |-> "perform_search", detail_id |-> 0, raised |-> FALSE,
                 ret |-> perform_search(cvs, in_keywords_str, in_algorithm_type,
                                        in_num_top_matches, set_order)]
    /\ runs' = [calls |-> runs.calls + 1,
                first |-> IF runs.calls = 0 THEN scall'.ret ELSE runs.first,
                last |-> scall'.ret]
    /\ cvs' = store_after_search(cvs, in_keywords_str, in_algorithm_type)
    /\ UNCHANGED <<mvars, parsing_status, parsing_complete_event, workervars,
                   factoryvars, statusvars, runvars, threadvars, levvars, simvars, dbvars,
                   in_keywords_str, in_algorithm_type, in_num_top_matches, set_order>>

NextRepeat == SearchAgain

SpecRepeat == InitRepeat /\ [][NextRepeat]_vars

(***************************************************************************)
(* A search by a service whose db_manager fails in one way or another.     *)
(***************************************************************************)
AllIds == 1..MaxDocs

\* a db_manager that works, and the ways it fails: for every lookup or for the
\* lookup of one document only
DbManagers ==
    { [present |-> TRUE, applications_raise |-> ar, applications |-> ap,
       applicant_raises |-> br, applicants |-> bp] :
          ar \in {{}, {2}, AllIds}, ap \in {{}, {1}, AllIds},
          br \in {{}, {1}}, bp \in {{1}, AllIds} }

InitEnrich ==
    /\ FactoryIdle
    /\ StatusIdle
    /\ RunIdle
    /\ ThreadsIdle
    /\ LevIdle
    /\ SimIdle
    /\ RepeatIdle
    /\ MatchIdle
    /\ WorkerIdle
    /\ cvs \in {StoreOf(f, 1) : f \in [1..MaxDocs -> {1, 3}]}
    /\ parsing_status = [progress |-> 0, total |-> 0]
    /\ parsing_complete_event = FALSE
    /\ SearchInputs
    /\ db \in DbManagers

\* perform_search(keywords_str, algorithm_type, num_top_matches) of that service
SearchWithDb ==
    /\ \E r \in {perform_search_with(db, cvs, in_keywords_str, in_algorithm_type,
                                       in_num_top_matches, set_order)} :
           scall' = [op |-> "perform_search", detail_id |-> 0, raised |-> r.raised,
                     ret |-> r.ret]
    /\ cvs' = store_after_search(cvs, in_keywords_str, in_algorithm_type)
    /\ UNCHANGED <<mvars, parsing_status, parsing_complete_event, workervars,
                   factoryvars, statusvars, runvars, threadvars, levvars, simvars,
                   repeatvars, dbvars,
                   in_keywords_str, in_algorithm_type, in_num_top_matches, set_order>>

NextEnrich == SearchWithDb

SpecEnrich == InitEnrich /\ [][NextEnrich]_vars

(***************************************************************************)
(* Properties of the engines, under SpecMatch.                             *)
(***************************************************************************)
IsCount(engine) == mcall.op = "count_occurrences" /\ mcall.engine = engine

IsMultiple == mcall.op = "count_multiple_patterns"

C7_DegenerateInputsCountZero ==
    (/\ mcall.op = "count_occurrences"
     /\ \/ mcall.pattern = <<>>
        \/ text = <<>>
        \/ Len(mcall.pattern) > Len(text))
        => (~mcall.raised /\ mcall.count = 0)

\* Aho-Corasick was asked for a pattern longer than a non-empty text
C7_Witness ==
    /\ IsCount("AC")
    /\ text # <<>>
    /\ Len(mcall.pattern) > Len(text)
    /\ mcall.count = 0

\* C8: count_multiple_patterns returns, without raising, a map with an entry for
\* every input pattern, in which every empty or over-length pattern maps to 0.
C8_MultipleCoversEveryPattern ==
    IsMultiple
        => /\ ~mcall.raised
           /\ DOMAIN mcall.counts = Range(mcall.patterns)
           /\ \A p \in Range(mcall.patterns) :
                  (p = <<>> \/ Len(p) > Len(text)) => mcall.counts[p] = 0

\* a list holding an empty pattern and a pattern that occurs
C8_Witness ==
    /\ IsMultiple
    /\ ~mcall.raised
    /\ Len(mcall.patterns) = 2
    /\ mcall.patterns[1] = <<>>
    /\ mcall.patterns[2] \in DOMAIN mcall.counts
    /\ mcall.counts[mcall.patterns[2]] > 0

\* the count of every pattern by a separate KMP call
KMPCounts(T, S) == [p \in S |-> KMPCount(T, p)]

\* C9: every entry count_multiple_patterns(T, Ps)[p] equals KMP's
\* count_occurrences(T, p), also when one pattern is a prefix, suffix or substring
\* of another; hence the sum of the map's values equals the sum of the separate
\* KMP counts of its patterns.
C9_MultipleEqualsKMP ==
    IsMultiple
        => /\ ~mcall.raised
           /\ \A p \in Range(mcall.patterns) :
                  /\ p \in DOMAIN mcall.counts
                  /\ mcall.counts[p] = KMPCount(text, p)
           /\ SumOver(DOMAIN mcall.counts, mcall.counts) =
                  SumOver(Range(mcall.patterns), KMPCounts(text, Range(mcall.patterns)))

\* "b" is a suffix of "ab" and both occur in "ab"
C9_Witness ==
    /\ IsMultiple
    /\ text = <<"a", "b">>
    /\ mcall.patterns = << <<"a", "b">>, <<"b">> >>
    /\ ~mcall.raised
    /\ mcall.counts[<<"b">>] = 1
    /\ mcall.counts[<<"a", "b">>] = 1

(***************************************************************************)
(* Claims about perform_search, the store and the ingestion worker.        *)
(***************************************************************************)
\* the last call was a perform_search
IsSearch == scall.op = "perform_search"

\* the last call was a perform_search that got past its validation
Searched == IsSearch /\ scall.ret.scanned

\* the returned result list
Results == scall.ret.results

ResultIds == {Results[k].detail_id : k \in 1..Len(Results)}

RECURSIVE RefTotal(_, _, _)
\* the sum over the search terms, from the k-th on, of their occurrences in txt
RefTotal(txt, keywords, k) ==
    IF k > Len(keywords) THEN 0
    ELSE Cardinality(StartPositions(txt, keywords[k])) + RefTotal(txt, keywords, k + 1)

\* the ids of the stored CVs whose flat text holds an occurrence of a search term
ExactDocs ==
    {cvs[k][1] : k \in {j \in 1..Len(cvs) :
        RefTotal(Get(cvs[j][2], "flat_text", <<>>), ParseKeywords(in_keywords_str), 1) > 0}}

\* C1: in the returned list every exact result comes before every fuzzy result,
\* whatever the total_matches; within one kind the results are in descending
\* order of total_matches.
C1_ExactResultsFirst ==
    IsSearch =>
        \A i, j \in 1..Len(Results) :
            i < j =>
                /\ ~(Results[i].match_type = "fuzzy" /\ Results[j].match_type = "exact")
                /\ (Results[i].match_type = Results[j].match_type
                        => Results[i].total_matches >= Results[j].total_matches)

\* C2: when the number E of exact-matching documents is below top_n, at most top_n
\* results are returned and all E exact matches are among them.
C2_ExactMatchesSurviveTruncation ==
    (Searched /\ Cardinality(ExactDocs) < in_num_top_matches)
        => /\ Len(Results) <= in_num_top_matches
           /\ ExactDocs \subseteq ResultIds

\* C3: a CV inserted by add_cv with a non-empty text is an exact match of a search
\* if and only if the occurrences of the search terms in that text sum to more
\* than 0.
C3_AddedCvIsScanned ==
    Searched =>
        \A k \in 1..Len(cvs) :
            ("text" \in DOMAIN cvs[k][2] /\ cvs[k][2]["text"] # <<>>)
                => (cvs[k][1] \in scall.ret.exact_ids
                      <=> RefTotal(cvs[k][2]["text"], ParseKeywords(in_keywords_str), 1) > 0)

\* C4: when the worker has finished, every application whose file is on disk and
\* whose text was extracted has a record in the store under its detail_id, holding
\* its searchable text and its structured text.
C4_WorkerStoresExtractedCvs ==
    wpc = "done" =>
        \A k \in 1..Len(get_cvs_from_database) :
            LET app_data == get_cvs_from_database[k]
                idx == KeyIndex(cvs, app_data.detail_id)
            IN  (app_data.on_disk /\ app_data.raw_text # <<>>)
                    => /\ idx # 0
                       /\ "flat_text" \in DOMAIN cvs[idx][2]
                       /\ cvs[idx][2]["flat_text"] = format_flat_text(app_data.raw_text)
                       /\ "structured_text" \in DOMAIN cvs[idx][2]
                       /\ cvs[idx][2]["structured_text"] = format_resume(app_data.raw_text)

\* C5 as stated: the fuzzy phase of a perform_search runs if and only if fewer
\* than num_top_matches documents match exactly; when it runs, the reported
\* fuzzy-scanned count is the store size minus the number of exact matches and it
\* considers only documents that did not match exactly; when it does not run, the
\* count is 0 and no result is fuzzy.
C5_FuzzyPhaseCondition ==
    IsSearch =>
        /\ scall.ret.fuzzy_ran <=> Cardinality(ExactDocs) < in_num_top_matches
        /\ scall.ret.fuzzy_ran =>
               /\ scall.ret.fuzzy_count = Len(cvs) - Cardinality(ExactDocs)
               /\ scall.ret.fuzzy_ids \subseteq (Keys(cvs) \ ExactDocs)
        /\ ~scall.ret.fuzzy_ran =>
               /\ scall.ret.fuzzy_count = 0
               /\ \A k \in 1..Len(Results) : Results[k].match_type # "fuzzy"

\* C5 amended: in a perform_search that passes its validation (a term remains and
\* the factory builds the matcher) the fuzzy phase runs if and only if fewer than
\* num_top_matches documents match exactly; when it runs, the reported
\* fuzzy-scanned count is the store size minus the number of exact matches, it
\* considers only documents that did not match exactly and no fuzzy result is an
\* exact-matching document; in every perform_search in which it does not run, the
\* count is 0 and no result is fuzzy.
C5_FuzzyPhaseInValidatedSearch ==
    /\ Searched =>
           /\ scall.ret.fuzzy_ran <=> Cardinality(ExactDocs) < in_num_top_matches
           /\ scall.ret.fuzzy_ran =>
                  /\ scall.ret.fuzzy_count = Len(cvs) - Cardinality(ExactDocs)
                  /\ scall.ret.fuzzy_ids \subseteq (Keys(cvs) \ ExactDocs)
                  /\ \A k \in 1..Len(Results) :
                         Results[k].match_type = "fuzzy" =>
                             Results[k].detail_id \notin ExactDocs
    /\ (IsSearch /\ ~scall.ret.fuzzy_ran) =>
           /\ scall.ret.fuzzy_count = 0
           /\ scall.ret.fuzzy_ids = {}
           /\ \A k \in 1..Len(Results) : Results[k].match_type # "fuzzy"

\* the fuzzy phase ran beside an exact match, over two documents, and found one
C5_Witness ==
    /\ Searched
    /\ scall.ret.fuzzy_ran
    /\ Cardinality(scall.ret.exact_ids) = 1
    /\ scall.ret.fuzzy_count = 2
    /\ Len(cvs) = 3
    /\ \E k \in 1..Len(Results) : Results[k].match_type = "fuzzy"

\* C10: with the Aho-Corasick engine selected, perform_search runs and gives the
\* exact matches, per-term counts and fuzzy phase it gives with KMP.
C10_AhoCorasickSearchAsKMP ==
    (IsSearch /\ Upper(in_algorithm_type) = <<"A", "C">>)
        => LET kmp == perform_search(cvs, in_keywords_str, <<"K", "M", "P">>,
                                     in_num_top_matches,
                                     set_order)
           IN  /\ scall.ret.scanned = kmp.scanned
               /\ scall.ret.exact_ids = kmp.exact_ids
               /\ scall.ret.fuzzy_ran = kmp.fuzzy_ran
               /\ scall.ret.fuzzy_count = kmp.fuzzy_count
               /\ scall.ret.results = kmp.results

(***************************************************************************)
(* Properties of the factory, under SpecFactory.                           *)
(***************************************************************************)
\* str.lower() on the letters of the identifiers
IdLowerChar(c) ==
    CASE c = "K" -> "k" [] c = "M" -> "m" [] c = "P" -> "p" [] c = "B" -> "b"
      [] OTHER -> c

\* the identifier is the word, given in capitals, in some letter case
SpellsWord(identifier, word) ==
    /\ Len(identifier) = Len(word)
    /\ \A k \in 1..Len(word) : identifier[k] \in {word[k], IdLowerChar(word[k])}

\* the message ends with the identifier
NamesIdentifier(message, identifier) ==
    /\ Len(message) >= Len(identifier)
    /\ SubSeq(message, Len(message) - Len(identifier) + 1, Len(message)) = identifier

\* C11: get_matcher called with an identifier that is no known algorithm fails
\* with an error whose message names the identifier and returns no matcher; called
\* with KMP or BM in any letter case it returns that engine.
C11_FactoryKnownAndUnknown ==
    fcall.op = "get_matcher" =>
        /\ SpellsWord(fcall.algorithm_type, <<"K", "M", "P">>)
               => (~fcall.raised /\ fcall.matcher = "KMP")
        /\ SpellsWord(fcall.algorithm_type, <<"B", "M">>)
               => (~fcall.raised /\ fcall.matcher = "BM")
        /\ (/\ ~SpellsWord(fcall.algorithm_type, <<"K", "M", "P">>)
            /\ ~SpellsWord(fcall.algorithm_type, <<"B", "M">>))
               => /\ fcall.raised
                  /\ fcall.matcher = "none"
                  /\ NamesIdentifier(fcall.message, fcall.algorithm_type)

\* KMP asked for in mixed case
C11_Witness ==
    /\ fcall.op = "get_matcher"
    /\ fcall.algorithm_type = <<"k", "M", "p">>
    /\ ~fcall.raised
    /\ fcall.matcher = "KMP"

(***************************************************************************)
(* Properties of the outcome of perform_search, under SpecSearch.          *)
(***************************************************************************)
\* the search named an algorithm the factory does not build, with a term to search
BadAlgorithmSearch ==
    /\ IsSearch
    /\ ParseKeywords(in_keywords_str) # <<>>
    /\ get_matcher(in_algorithm_type).raised

\* C12: the outcome of a perform_search with an unknown algorithm name is an error
\* raised to the caller, which differs from the outcome of a valid search that
\* found nothing: an empty result list with zero counts.
C12_UnknownAlgorithmIsTypedError ==
    BadAlgorithmSearch =>
        /\ scall.raised
        /\ ~(/\ scall.ret.results = <<>>
             /\ scall.ret.total_cvs = 0
             /\ scall.ret.fuzzy_count = 0)

(***************************************************************************)
(* Properties of the progress of the store, under SpecStatus.              *)
(***************************************************************************)
IsGetStatus == gcall.op = "get_status"

\* C13: once the completion flag is set it stays set in every later state, whatever
\* update_status and get_status calls follow, and every get_status that finds it
\* set reports is_done = true.
C13_CompletionFlagStaysSet ==
    /\ [][parsing_complete_event => parsing_complete_event']_vars
    /\ []((IsGetStatus /\ gcall.before.event) => gcall.ret.is_done)

\* the flag is set and a later update_status left a smaller progress and total 0
C13_Witness ==
    /\ parsing_complete_event
    /\ upc = "idle"
    /\ parsing_status = [progress |-> 0, total |-> 0]
    /\ IsGetStatus
    /\ gcall.before.event
    /\ gcall.ret.is_done

\* C14: a get_status that finds the completion flag set and the stored progress
\* below the stored total returns parsed_count equal to total_count.
C14_GetStatusSelfHeals ==
    (/\ IsGetStatus
     /\ gcall.before.event
     /\ gcall.before.progress < gcall.before.total)
        => /\ gcall.ret.parsed_count = gcall.ret.total_count
           /\ gcall.ret.total_count = gcall.before.total

\* get_status found the flag set with progress 0 of 2 and returned 2 of 2
C14_Witness ==
    /\ IsGetStatus
    /\ gcall.before = [progress |-> 0, total |-> 2, event |-> TRUE]
    /\ gcall.ret.parsed_count = 2
    /\ gcall.ret.total_count = 2

\* C15: every status get_status returns with is_done = true has
\* parsed_count <= total_count, after any sequence of update_status calls.
C15_DoneStatusWithinTotal ==
    (IsGetStatus /\ gcall.ret.is_done) => gcall.ret.parsed_count <= gcall.ret.total_count

\* C16: no get_status reports parsed_count >= total_count > 0 together with
\* is_done = false, under any interleaving with an update_status call.
C16_ProgressUpdateAtomic ==
    IsGetStatus =>
        ~(/\ gcall.ret.parsed_count >= gcall.ret.total_count
          /\ gcall.ret.total_count > 0
          /\ ~gcall.ret.is_done)

(***************************************************************************)
(* The worker that found nothing to process.                               *)
(***************************************************************************)
\* the worker has returned and had no application to process: the list was empty or
\* the lookup failed
WorkerFoundNothing == wpc = "done" /\ Len(get_cvs_from_database) = 0

\* C18: when the ingestion worker finds no documents to process (the application
\* list is empty, or the lookup failed), then after the worker has returned
\* get_status reports is_done = true.
C18_EmptyIngestionIsDone ==
    WorkerFoundNothing => get_status(parsing_status, parsing_complete_event).ret.is_done

(***************************************************************************)
(* A search running while documents are inserted, under                    *)
(* SpecConcurrentSearch.                                                   *)
(***************************************************************************)
\* C17: a perform_search that runs while add_cv inserts documents, at any point of
\* its iteration over the store, completes without an error, and the results it
\* returns are about documents that are in the store.
C17_SearchDuringIngestionCompletes ==
    /\ ~srun.raised
    /\ srun.pc = "done" =>
           \A k \in 1..Len(srun.ret.results) :
               srun.ret.results[k].detail_id \in Keys(cvs)

(***************************************************************************)
(* Two threads on one engine instance, under SpecThreads.                  *)
(***************************************************************************)
\* what count_occurrences of thread t returns when no other thread runs
CountAlone(t) == ACCountOccurrences(ACInstanceNew, threads[t].text, threads[t].pattern)

\* C19: the engines are stateless: when two threads call count_occurrences on one
\* shared AhoCorasickAlgorithm instance, under every interleaving each call returns
\* the value it returns when run alone.
C19_SharedEngineCallsAreIndependent ==
    \A t \in Threads :
        threads[t].pc = "done" =>
            /\ ~threads[t].raised
            /\ threads[t].ret = CountAlone(t).ret

(***************************************************************************)
(* The distance, under SpecLev.                                            *)
(***************************************************************************)
\* d(a, a) = 0, d(a, b) = d(b, a) and d(a, c) <= d(a, b) + d(b, c)
LevMetricLaws ==
    /\ lcall.aa = 0
    /\ lcall.ab = lcall.ba
    /\ lcall.ac <= lcall.ab + lcall.bc

\* d(a, "") = |a|
LevDistanceToEmpty == lcall.a_empty = Len(lin.a)

\* C20: for all strings a, b, c calculate_levenshtein_distance gives d(a, a) = 0,
\* d(a, b) = d(b, a), d(a, c) <= d(a, b) + d(b, c), and d(a, "") = |a|.
C20_LevenshteinLaws ==
    lcall.op = "distances" => (LevMetricLaws /\ LevDistanceToEmpty)

(***************************************************************************)
(* The best fuzzy match, under SpecSimilar.                                *)
(***************************************************************************)
\* the whitespace-separated tokens of the lower-cased text
SimTokens == Range(Words(Lower(sim_in.text)))

\* 1 - distance(keyword, word) / max(|keyword|, |word|), as a fraction
SimilarityTo(word) ==
    LET len_max == Max(Len(sim_in.keyword), Len(word))
    IN  <<len_max - calculate_levenshtein_distance(sim_in.keyword, word), len_max>>

\* C21: find_similar_word returns None or a pair (word, similarity) in which word is
\* a token of the lower-cased text, similarity is 1 - distance / longer length for
\* that word, is the maximum over all tokens and is at least the threshold; it
\* returns None exactly when no token reaches the threshold.
C21_BestMatchOrNone ==
    sim_call.op = "find_similar_word" =>
        /\ ~sim_call.ret.found <=>
               ~\E w \in SimTokens : SimAtLeast(SimilarityTo(w), sim_in.threshold)
        /\ sim_call.ret.found =>
               /\ sim_call.ret.word \in SimTokens
               /\ ~SimGreater(sim_call.ret.similarity, SimilarityTo(sim_call.ret.word))
               /\ ~SimGreater(SimilarityTo(sim_call.ret.word), sim_call.ret.similarity)
               /\ \A w \in SimTokens : ~SimGreater(SimilarityTo(w), sim_call.ret.similarity)
               /\ SimAtLeast(sim_call.ret.similarity, sim_in.threshold)

Ranked ==
    perform_search(cvs, in_keywords_str, in_algorithm_type, in_num_top_matches,
                   set_order).results

\* the lookup of the document fails: a database call raises, the application is not
\* found or the applicant is not found
LookupFails(detail_id) ==
    \/ detail_id \in db.applications_raise
    \/ detail_id \notin db.applications
    \/ detail_id \in db.applicant_raises
    \/ detail_id \notin db.applicants

\* the name and the role of an entry are placeholder values
IsPlaceholder(entry) ==
    \/ entry.application_role \in {"Error Role", "N/A"}
    \/ entry.applicant_name = <<"DB Applicant Not Found">>

\* C23: when lookups fail, perform_search still returns normally, with one entry per
\* ranked document in the same order and placeholder name or role values in the
\* entries whose lookup failed.
C23_FailedLookupsGivePlaceholders ==
    IsSearch =>
        /\ ~scall.raised
        /\ Len(Results) = Len(Ranked)
        /\ \A k \in 1..Len(Results) :
               /\ Results[k].detail_id = Ranked[k].detail_id
               /\ LookupFails(Results[k].detail_id) => IsPlaceholder(Results[k])

\* two results, the lookup of the first worked and that of the second raised
C23_Witness ==
    /\ IsSearch
    /\ Len(Results) = 2
    /\ ~LookupFails(Results[1].detail_id)
    /\ Results[1].application_role = "role in db"
    /\ Results[2].detail_id \in db.applications_raise
    /\ Results[2].application_role = "Error Role"

(***************************************************************************)
(* What a search leaves behind, under SpecEnrich.                          *)
(***************************************************************************)
\* C24: perform_search never changes the document store: the stored documents, the
\* record of each, the stored progress values and the completion flag are after the
\* search what they were before it.
C24_SearchLeavesStoreUnchanged ==
    [][scall'.op = "perform_search" =>
           /\ cvs' = cvs
           /\ parsing_status' = parsing_status
           /\ parsing_complete_event' = parsing_complete_event]_vars

\* a search has run its fuzzy phase and its lookups on a store of three documents
C24_Witness ==
    /\ Searched
    /\ scall.ret.fuzzy_ran
    /\ scall.ret.fuzzy_ids # {}
    /\ Len(cvs) = MaxDocs
    /\ \E k \in 1..Len(Results) : Results[k].application_role = "role in db"

(***************************************************************************)
(* The totals of the exact results, under SpecSearch.                      *)
(***************************************************************************)
\* C25: for every exact result of perform_search, total_matches is the sum of the
\* counts in its matched_keywords map, also when the keyword string lists a term
\* more than once.
C25_TotalIsSumOfKeywordCounts ==
    IsSearch =>
        \A k \in 1..Len(Results) :
            Results[k].match_type = "exact" =>
                Results[k].total_matches =
                    SumOver(DOMAIN Results[k].matched_keywords,
                            Results[k].matched_keywords)

(***************************************************************************)
(* The early returns of perform_search, under SpecSearch.                  *)
(***************************************************************************)
\* the keyword string has no non-empty term after splitting on commas and trimming
NoTerm == \A part \in Range(Split(in_keywords_str, ",")) : Strip(part) = <<>>

\* the algorithm identifier names neither engine the factory builds
UnknownAlgorithm == Upper(in_algorithm_type) \notin { <<"K", "M", "P">>, <<"B", "M">> }

\* C26: perform_search fails fast: with no non-empty term or with an unknown
\* algorithm it returns an empty result list with zero timings and zero scan counts,
\* and has neither read the store, nor run a matcher, nor looked an applicant up.
C26_FailFast ==
    (IsSearch /\ (NoTerm \/ UnknownAlgorithm)) =>
        /\ ~scall.raised
        /\ scall.ret.results = <<>>
        /\ scall.ret.exact_time = "0.0"
        /\ scall.ret.fuzzy_time = "0.0"
        /\ scall.ret.total_cvs = 0
        /\ scall.ret.fuzzy_count = 0
        /\ ~scall.ret.scanned
        /\ scall.ret.exact_ids = {}
        /\ scall.ret.fuzzy_ids = {}

\* a search for blanks and commas only, on a store that holds three documents
C26_Witness ==
    /\ IsSearch
    /\ NoTerm
    /\ ~UnknownAlgorithm
    /\ Len(cvs) = MaxDocs
    /\ scall.ret = FailFast

(***************************************************************************)
(* The result list of a search during insertions, under                    *)
(* SpecConcurrentSearch.                                                   *)
(***************************************************************************)
\* the searchable text the store holds for the document
StoredFlatText(detail_id) ==
    IF KeyIndex(cvs, detail_id) = 0 THEN <<>>
    ELSE Get(cvs[KeyIndex(cvs, detail_id)][2], "flat_text", <<>>)

C28_InsertedRecordsNeverChange ==
    [][\A k \in 1..Len(cvs) :
           /\ KeyIndex(cvs', cvs[k][1]) # 0
           /\ cvs'[KeyIndex(cvs', cvs[k][1])][2] = cvs[k][2]]_vars

(***************************************************************************)
(* The worker thread run to its end: the thread is scheduled as long as it *)
(* has a step to take, none of its steps blocks (update_status holds the   *)
(* lock for two assignments), so its steps are weakly fair.                *)
(***************************************************************************)
SpecIngestFair == InitIngest /\ [][NextIngest]_vars /\ WF_vars(NextIngest)

\* what get_status() would return in the current state
StatusSeen == get_status(parsing_status, parsing_complete_event).ret

\* C29: for a non-empty application list the worker terminates with completion
\* signalled: each iteration of its loop, whether the file is missing, the
\* extraction or the insertion raises, or the CV is stored, ends with
\* update_status(i + 1, total) for the next i in order; the progress successive
\* get_status calls see never decreases; and is_done eventually becomes true.
C29_WorkerCompletes ==
    /\ [][/\ StatusSeen'.parsed_count >= StatusSeen.parsed_count
          /\ wpc = "loop" =>
                 /\ wi' = wi + 1
                 /\ parsing_status' = [progress |-> wi + 1,
                                       total |-> Len(get_cvs_from_database)]]_vars
    /\ (Len(get_cvs_from_database) > 0) ~> (wpc = "done" /\ StatusSeen.is_done)

\* the worker has ended after a full list in which one file was missing and one
\* insertion raised, and completion is reported
C29_Witness ==
    /\ Len(get_cvs_from_database) = MaxApps
    /\ wpc = "done"
    /\ wi = MaxApps
    /\ StatusSeen.is_done
    /\ StatusSeen.parsed_count = MaxApps
    /\ \E k \in 1..MaxApps : ~applications[k].on_disk
    /\ \E k \in 1..MaxApps :
           /\ applications[k].on_disk
           /\ call_add_cv(cvs, WorkerAddCvArgs(applications[k])).raised

(***************************************************************************)
(* Completion and the worker's remaining work, under SpecIngest.           *)
(***************************************************************************)
\* C30: completion implies quiescence: in every state in which get_status reports
\* is_done the worker has no application left to process, and from such a state on
\* the documents of the store do not change.
C30_DoneImpliesQuiescent ==
    /\ [](StatusSeen.is_done => wpc = "done" /\ wi = Len(get_cvs_from_database))
    /\ [][StatusSeen.is_done => cvs' = cvs]_vars

\* completion is reported after the worker went through a full list with a file it
\* could read
C30_Witness ==
    /\ StatusSeen.is_done
    /\ wpc = "done"
    /\ wi = MaxApps
    /\ \A k \in 1..MaxApps : applications[k].on_disk /\ applications[k].raw_text # <<>>

=============================================================================
